---- MODULE Spec2Model ----
(***************************************************************************)
(* Device batch orchestration of athena/api/google_api/devices.py          *)
(* (class Devices): identifier lookup with the per-instance cache, the     *)
(* batch partitioner, the retry loops, the thread-pool fan-out and the     *)
(* aggregation of per-device outcomes into one report.                     *)
(*                                                                         *)
(* Strings that the code inspects (organizational-unit paths) are          *)
(* sequences of tokens, "/" being a token of its own, so that startswith   *)
(* and the f"/{target_ou}" comparison are computed, not assumed.           *)
(* A Python dict is a sequence of <<key, value>> pairs in insertion order. *)
(***************************************************************************)
EXTENDS Integers, Sequences, FiniteSets, TLC

\* ------------------------------------------------------------------ bounds
\* Number of devices the remote service knows, and longest input list.
MaxDevices == 3
\* Devices.MAX_BATCH_SIZE is 50 in the source; the model runs it scaled down.
MAX_BATCH_SIZE == 2
\* Requests one call of the Retry-decorated move_batch may issue before the
\* decorator's deadline passes (the deadline is wall-clock time in the source).
MaxInner == 2
\* Longest list and largest batch size handed to the partitioner on its own.
MaxPartLen == 5
MaxPartSize == 4
\* Longest dotted key (in segments) and deepest record given to
\* get_nested_value on its own.
MaxPath == 2
\* Most command-line arguments given to a script.
MaxArgc == 3

\* ------------------------------------------------------- program constants
MAX_RETRIES == 3
MIN_DELAY == 0
MAX_DELAY == 300

VARIABLES
    pc,             \* position of the public call: idle, running, phase2, returned, raised
    call,           \* the public call being served and its arguments
    remote,         \* the remote service's record of each device (status, orgUnitPath)
    device_cache,   \* Devices._device_cache: <<identifier_type, identifier>> -> projection
    tasks,          \* the futures submitted to the thread pool, in submission order
    batch_results,  \* process_reboot_batch: the per-batch result lists
    results,        \* the report the public call builds
    move_results,   \* the report of the nested move_devices_to_ou call (phase two)
    move_arg,       \* the device list handed to the nested move_devices_to_ou call
    move_requests,  \* deviceIds named in a moveDevicesToOu request of this call
    lookups,        \* chromeosdevices().list queries issued by this call
    part_in,        \* partitioner on its own: the list and the batch size
    part_out,       \* partitioner on its own: the batches, once formed
    nested_in,      \* get_nested_value on its own: the record and the dotted key
    nested_out,     \* get_nested_value on its own: what the call gave
    find_n,         \* direct lookups (find_device, get_device): calls made so far
    find_last,      \* direct lookups: the last call and what it gave
    find_fetched,   \* direct lookups: per cache key, the fetch that filled the cache
    req_in,         \* BaseAeriesClient._make_request on its own: what the HTTP layer does
    req_out,        \* BaseAeriesClient._make_request on its own: what the call gave
    cli_in,         \* a CLI script run: the script and what its operation does
    cli_out,        \* a CLI script run: standard output, exit status
    list_in,        \* list_all_devices_by_ou on its own: the pages the service holds
    list_out,       \* list_all_devices_by_ou on its own: what the call gave
    chromebooks,    \* sync_chromebooks: the rows of the chromebooks table
    sync            \* sync_chromebooks: the fetched devices, the loop position, the counters

vars == <<pc, call, remote, device_cache, tasks, batch_results, results,
          move_results, move_arg, move_requests, lookups, part_in, part_out,
          nested_in, nested_out, find_n, find_last, find_fetched,
          req_in, req_out, cli_in, cli_out, list_in, list_out, chromebooks, sync>>

orch_vars == <<pc, call, remote, device_cache, tasks, batch_results, results,
               move_results, move_arg, move_requests, lookups>>

part_vars == <<part_in, part_out>>

nested_vars == <<nested_in, nested_out>>

find_vars == <<find_n, find_last, find_fetched>>

req_vars == <<req_in, req_out>>

cli_vars == <<cli_in, cli_out>>

list_vars == <<list_in, list_out>>

sync_vars == <<chromebooks, sync>>

\* What the device orchestration never touches.
aside_vars == <<part_vars, nested_vars, find_vars, req_vars, cli_vars,
                list_vars, sync_vars>>

\* ------------------------------------------------------------ the fleet
DeviceIndex == 1..MaxDevices

AssetTags == <<"a1", "a2", "a3", "a4", "a5">>
SerialNumbers == <<"s1", "s2", "s3", "s4", "s5">>
DeviceIds == <<"d1", "d2", "d3", "d4", "d5">>
\* An identifier that matches no device.
Unknown == "zz"
None == "None"
\* A result slot no call has filled yet.
Unset == <<"unset">>

Root == "Chromebooks"
Slash == "/"
Repair == <<"Repair">>
RootedRepair == <<Root, Slash, "Repair">>
UpdatingOu == <<"3110 (for updating)">>
Elsewhere == <<Slash, Root, Slash, "Cart">>
\* An empty (or None) target_ou: both are falsy in the source.
NoTarget == <<>>

\* The remote service's full record of device i.
\* The service leaves out a field that has no value (here: notes).
DeviceRecord(i, rem) ==
    IF "notes" \in DOMAIN rem[i]
    THEN [deviceId |-> DeviceIds[i], annotatedAssetId |-> AssetTags[i],
          serialNumber |-> SerialNumbers[i],
          orgUnitPath |-> rem[i].orgUnitPath, status |-> rem[i].status,
          notes |-> rem[i].notes]
    ELSE [deviceId |-> DeviceIds[i], annotatedAssetId |-> AssetTags[i],
          serialNumber |-> SerialNumbers[i],
          orgUnitPath |-> rem[i].orgUnitPath, status |-> rem[i].status]

\* Every even device already sits in /Chromebooks/Repair.
InitialOu(i) == IF i % 2 = 0 THEN <<Slash>> \o RootedRepair ELSE Elsewhere

\* ------------------------------------------------------------ dicts
DictKeys(d) == {d[j][1] : j \in 1..Len(d)}

DictGet(d, k, default) ==
    IF k \in DictKeys(d)
    THEN d[CHOOSE j \in 1..Len(d) : d[j][1] = k][2]
    ELSE default

\* ------------------------------------------------------------ strings
StartsWith(s, prefix) ==
    /\ Len(s) >= Len(prefix)
    /\ SubSeq(s, 1, Len(prefix)) = prefix

Min(a, b) == IF a < b THEN a ELSE b

\* ------------------------------------------------------------ lookup
\* process_device: the requested keys, in order, that the record carries.
\* (include_null is False in every call of the orchestration.)
RECURSIVE process_device(_, _)
process_device(device, keys) ==
    IF keys = <<>> THEN <<>>
    ELSE (IF Head(keys) \in DOMAIN device
          THEN << <<Head(keys), device[Head(keys)]>> >>
          ELSE <<>>) \o process_device(device, Tail(keys))

\* The devices the remote service matches to a query asset_id:<x> or id:<x>.
Matches(identifier, identifier_type, rem) ==
    {i \in DeviceIndex : DeviceRecord(i, rem)[identifier_type] = identifier}

CacheKey(identifier_type, identifier) == <<identifier_type, identifier>>

\* What find_device hands back: None, the projection (a dict), or one value.
NoneRet == [kind |-> "none"]

DictRet(d) == [kind |-> "dict", dict |-> d]

ValueRet(x) == [kind |-> "value", value |-> x]

\* The fields fetched when the caller names none (abridged to the fields the
\* model's records can carry, in the order of the source's list).
DefaultFields ==
    <<"deviceId", "serialNumber", "status", "annotatedAssetId", "notes", "orgUnitPath">>

\* list(result.values())[0] if len(args) == 1 else result
Shape(fields, projection) ==
    IF Len(fields) = 1 THEN ValueRet(projection[1][2]) ELSE DictRet(projection)

\* A validation that lets every identifier_type through.
ValidIdentifierTypeAny(identifier_type) == TRUE

\* identifier_type in ['annotatedAssetId', 'serialNumber']
ValidIdentifierType(identifier_type) ==
    identifier_type \in {"annotatedAssetId", "serialNumber"}

\* find_device. fields are the *args; answer is what the list query does:
\* "answer" (the service answers) or "error" (execute() raises).
\* Yields what is returned (ret; found and dict: whether it is a projection
\* or a value of one, and the projection), the exception that leaves the call
\* (raised), the cache and the number of list queries issued.
\* On a cache hit the single value is taken outside the try block; on a miss
\* the projection is stored before the single value is taken inside it.
find_device(identifier, identifier_type, fields, answer, cache, rem) ==
    LET key == CacheKey(identifier_type, identifier)
        hits == Matches(identifier, identifier_type, rem)
        single == Len(fields) = 1
        nothing == [found |-> FALSE, dict |-> <<>>, cache |-> cache, calls |-> 0,
                    ret |-> NoneRet, raised |-> "none"]
    IN  IF ~ValidIdentifierType(identifier_type)
        THEN [nothing EXCEPT !.raised = "ValueError"]
        ELSE IF key \in DOMAIN cache
        THEN (IF single /\ cache[key] = <<>>
              THEN [nothing EXCEPT !.raised = "IndexError"]
              ELSE [found |-> TRUE, dict |-> cache[key], cache |-> cache, calls |-> 0,
                    ret |-> Shape(fields, cache[key]), raised |-> "none"])
        ELSE IF answer = "error" \/ hits = {}
        THEN [nothing EXCEPT !.calls = 1]
        ELSE LET device == DeviceRecord(CHOOSE i \in hits : TRUE, rem)
                 processed_device ==
                     process_device(device, IF fields = <<>> THEN DefaultFields
                                            ELSE fields)
                 stored == (key :> processed_device) @@ cache
             IN  IF single /\ processed_device = <<>>
                 THEN [nothing EXCEPT !.calls = 1, !.cache = stored]
                 ELSE [found |-> TRUE, dict |-> processed_device,
                       cache |-> stored, calls |-> 1,
                       ret |-> Shape(fields, processed_device), raised |-> "none"]

InfoFields == <<"deviceId", "annotatedAssetId", "orgUnitPath", "status">>

\* get_device_info: one find_device per identifier, in order; an identifier
\* whose lookup yields nothing is logged and left out.
RECURSIVE get_device_info(_, _, _, _, _)
get_device_info(devices, identifier_type, answers, cache, rem) ==
    IF devices = <<>> THEN [list |-> <<>>, cache |-> cache, lookups |-> 0]
    ELSE LET r == find_device(Head(devices), identifier_type, InfoFields,
                              Head(answers), cache, rem)
             rest == get_device_info(Tail(devices), identifier_type,
                                     Tail(answers), r.cache, rem)
             entry == [deviceId |-> DictGet(r.dict, "deviceId", None),
                       annotatedAssetId |-> DictGet(r.dict, "annotatedAssetId", None),
                       orgUnitPath |-> DictGet(r.dict, "orgUnitPath", <<"Unknown">>),
                       status |-> DictGet(r.dict, "status", "Unknown")]
         IN  [list |-> (IF r.found /\ r.dict # <<>> THEN <<entry>> ELSE <<>>)
                       \o rest.list,
              cache |-> rest.cache,
              lookups |-> r.calls + rest.lookups]

\* ------------------------------------------------------------ partitioner
\* range(start, stop, step)
RECURSIVE Range(_, _, _)
Range(start, stop, step) ==
    IF start >= stop THEN <<>>
    ELSE <<start>> \o Range(start + step, stop, step)

\* list[i:j] with Python's clamping, i and j counted from 0
Slice(list, i, j) == SubSeq(list, i + 1, Min(j, Len(list)))

\* A partitioner that forms only the full batches and loses the ragged tail.
PartitionFullOnly(list, size) ==
    [k \in 1..(Len(list) \div size) |-> Slice(list, (k - 1) * size, k * size)]

\* [list[i:i + size] for i in range(0, len(list), size)]
Partition(list, size) ==
    LET starts == Range(0, Len(list), size)
    IN  [k \in 1..Len(starts) |-> Slice(list, starts[k], starts[k] + size)]

\* ------------------------------------------------------------ inputs
\* The identifier a caller writes for device i (or for no device at all).
Identifier(i, identifier_type) ==
    IF i > MaxDevices THEN Unknown
    ELSE IF identifier_type = "annotatedAssetId" THEN AssetTags[i]
    ELSE IF identifier_type = "serialNumber" THEN SerialNumbers[i]
    ELSE DeviceIds[i]

\* Input lists: 1..MaxDevices identifiers drawn, in order and without
\* repetition, from the fleet's identifiers and the unknown one.
Picks ==
    {p \in UNION {[1..n -> 1..(MaxDevices + 1)] : n \in 1..MaxDevices} :
        \A j \in 1..Len(p) : \A k \in 1..Len(p) : j < k => p[j] < p[k]}

InputLists(identifier_type) ==
    {[j \in 1..Len(p) |-> Identifier(p[j], identifier_type)] : p \in Picks}

IdentifierTypes == {"annotatedAssetId", "serialNumber", "deviceId"}

DelayValues == {MIN_DELAY - 1, MIN_DELAY, MAX_DELAY + 1}

Answers(n) == [1..n -> {"answer", "error"}]

\* ------------------------------------------------------------ tasks
NoExc == [type |-> "none", req |-> 0]

\* One future of the thread pool: a batch (move) or a single device.
NewTask(kind, grp, batch, target_ou) ==
    [kind |-> kind, grp |-> grp, batch |-> batch, target_ou |-> target_ou,
     attempt |-> 0, inner |-> 0, reqs |-> 0, sleeps |-> 0,
     last |-> NoExc, outcome |-> "pending"]

EmptyResults ==
    [success |-> <<>>, failure |-> <<>>, already_deprovisioned |-> <<>>,
     move_success |-> <<>>, move_failure |-> <<>>]

EmptyBatchResults == [success |-> <<>>, failure |-> <<>>, merged |-> FALSE]

HasKey(d, k) == k \in DOMAIN d

\* device_info.get('annotatedAssetId')
AssetOf(d) == IF HasKey(d, "annotatedAssetId") THEN d.annotatedAssetId ELSE None

IndexOfDeviceId(id) == {i \in DeviceIndex : DeviceIds[i] = id}

AllDone == \A t \in 1..Len(tasks) : tasks[t].outcome # "pending"

\* ------------------------------------------------------------ the calls
NormalizeOu(target_ou) ==
    IF StartsWith(target_ou, <<Root, Slash>>) THEN target_ou
    ELSE <<Root, Slash>> \o target_ou

\* move_devices_to_ou up to the submission of its batches.
MoveSetup(devices, target_ou, identifier_type, answers, cache, rem) ==
    LET target == NormalizeOu(target_ou)
        info == IF identifier_type = "deviceId"
                THEN [list |-> [j \in 1..Len(devices) |-> [deviceId |-> devices[j]]],
                      cache |-> cache, lookups |-> 0]
                ELSE get_device_info(devices, identifier_type, answers, cache, rem)
        batches == Partition(info.list, MAX_BATCH_SIZE)
    IN  [tasks |-> [k \in 1..Len(batches) |-> NewTask("move", k, batches[k], target)],
         cache |-> info.cache, lookups |-> info.lookups]

NewCall(op, devices, identifier_type, target_ou, delay) ==
    [op |-> op, devices |-> devices, identifier_type |-> identifier_type,
     target_ou |-> target_ou, delay |-> delay, raised |-> "none"]

CallMove ==
    /\ pc = "idle"
    /\ \E identifier_type \in IdentifierTypes :
       \E devices \in InputLists(identifier_type) :
       \E target_ou \in {Repair, RootedRepair} :
       \E answers \in Answers(Len(devices)) :
          LET s == MoveSetup(devices, target_ou, identifier_type, answers,
                             device_cache, remote)
          IN  /\ call' = NewCall("move_devices_to_ou", devices, identifier_type,
                                 NormalizeOu(target_ou), 0)
              /\ tasks' = s.tasks
              /\ device_cache' = s.cache
              /\ lookups' = lookups + s.lookups
    /\ pc' = "running"
    /\ UNCHANGED <<remote, batch_results, results, move_results, move_arg,
                   move_requests, aside_vars>>

\* A range check that lets MAX_DELAY + 1 through.
ValidDelayOffByOne(user_session_delay_seconds) ==
    /\ MIN_DELAY <= user_session_delay_seconds
    /\ user_session_delay_seconds <= MAX_DELAY + 1

ValidDelay(user_session_delay_seconds) ==
    /\ MIN_DELAY <= user_session_delay_seconds
    /\ user_session_delay_seconds <= MAX_DELAY

\* reboot_devices up to the submission of its batches; every device of a
\* batch becomes a future of that batch's own pool.
RebootSetup(devices, identifier_type, answers, cache, rem) ==
    LET info == IF identifier_type = "deviceId"
                THEN [list |-> [j \in 1..Len(devices) |-> [deviceId |-> devices[j]]],
                      cache |-> cache, lookups |-> 0]
                ELSE get_device_info(devices, identifier_type, answers, cache, rem)
        batches == Partition(info.list, MAX_BATCH_SIZE)
        grp(j) == ((j - 1) \div MAX_BATCH_SIZE) + 1
    IN  [tasks |-> [j \in 1..Len(info.list) |->
                       NewTask("reboot", grp(j), <<batches[grp(j)][((j - 1) % MAX_BATCH_SIZE) + 1]>>, NoTarget)],
         nbatches |-> Len(batches),
         cache |-> info.cache, lookups |-> info.lookups]

CallReboot ==
    /\ pc = "idle"
    /\ \E identifier_type \in IdentifierTypes :
       \E devices \in InputLists(identifier_type) :
       \E delay \in DelayValues :
       \E answers \in Answers(Len(devices)) :
          /\ call' = [NewCall("reboot_devices", devices, identifier_type,
                              NoTarget, delay)
                        EXCEPT !.raised = IF ValidDelay(delay) THEN "none"
                                          ELSE "ValueError"]
          /\ IF ~ValidDelay(delay)
             THEN /\ pc' = "raised"
                  /\ UNCHANGED <<tasks, device_cache, lookups, batch_results>>
             ELSE LET s == RebootSetup(devices, identifier_type, answers,
                                       device_cache, remote)
                  IN  /\ pc' = "running"
                      /\ tasks' = s.tasks
                      /\ batch_results' = [b \in 1..s.nbatches |-> EmptyBatchResults]
                      /\ device_cache' = s.cache
                      /\ lookups' = lookups + s.lookups
    /\ UNCHANGED <<remote, results, move_results, move_arg, move_requests,
                   aside_vars>>

\* deprovision, reset_device and update_os look devices up by asset tag and
\* submit one future per device found.
DeviceSetup(kind, devices, answers, cache, rem) ==
    LET info == get_device_info(devices, "annotatedAssetId", answers, cache, rem)
    IN  [tasks |-> [j \in 1..Len(info.list) |->
                       NewTask(kind, 1, <<info.list[j]>>, NoTarget)],
         cache |-> info.cache, lookups |-> info.lookups]

CallPerDevice(op, kind, targets) ==
    /\ pc = "idle"
    /\ \E devices \in InputLists("annotatedAssetId") :
       \E target_ou \in targets :
       \E answers \in Answers(Len(devices)) :
          LET s == DeviceSetup(kind, devices, answers, device_cache, remote)
          IN  /\ call' = NewCall(op, devices, "annotatedAssetId", target_ou, 0)
              /\ tasks' = s.tasks
              /\ device_cache' = s.cache
              /\ lookups' = lookups + s.lookups
    /\ pc' = "running"
    /\ UNCHANGED <<remote, batch_results, results, move_results, move_arg,
                   move_requests, aside_vars>>

CallDeprovision == CallPerDevice("deprovision", "deprovision", {NoTarget, Repair})

CallResetDevice == CallPerDevice("reset_device", "wipe", {NoTarget})

CallUpdateOs == CallPerDevice("update_os", "wipe", {NoTarget})

\* ------------------------------------------------------------ retry loops
\* `attempt` counts the failed attempts of the loop
\* "for attempt in range(MAX_RETRIES)"; while the task is pending it is the
\* loop variable.
\* A loop that gives up one attempt early.
IsLastAttemptEarly(attempt) == attempt = MAX_RETRIES - 2

IsLastAttempt(attempt) == attempt = MAX_RETRIES - 1

BatchIds(batch) == {batch[j].deviceId : j \in 1..Len(batch)}

Keyed(batch) == \A j \in 1..Len(batch) : HasKey(batch[j], "annotatedAssetId")

Known(batch) == \A j \in 1..Len(batch) : IndexOfDeviceId(batch[j].deviceId) # {}

\* What the remote service may do with a request of task tk.
Responses(tk, rem) ==
    IF ~Known(tk.batch) THEN {"error"}
    ELSE IF tk.kind = "move" THEN {"ok", "error"}
    ELSE IF tk.kind = "reboot" THEN {"ok", "error", "refresh"}
    ELSE IF tk.kind = "wipe" THEN {"ok", "error"}
    ELSE IF \E i \in IndexOfDeviceId(tk.batch[1].deviceId) :
                rem[i].status = "DEPROVISIONED"
         THEN {"illegal", "error"}
         ELSE {"ok", "lost", "error"}

\* The exception one run of move_batch's body ends with (NoExc: it returns).
\* The request is sent first; the log loop then reads d['annotatedAssetId'].
move_batch(batch, resp, n) ==
    IF resp = "error" THEN [type |-> "HttpError", req |-> n]
    ELSE IF ~Keyed(batch) THEN [type |-> "KeyError", req |-> n]
    ELSE NoExc

MoveSuccess(batch, target_ou) ==
    [j \in 1..Len(batch) |->
        [deviceId |-> batch[j].deviceId,
         annotatedAssetId |-> batch[j].annotatedAssetId,
         newOrgUnit |-> target_ou]]

Failure(batch, reason) ==
    [j \in 1..Len(batch) |->
        [deviceId |-> batch[j].deviceId,
         annotatedAssetId |-> AssetOf(batch[j]),
         reason |-> reason]]

Outcome3(task, success, failure) ==
    [task |-> task, success |-> success, failure |-> failure]

\* One request of process_batch around the Retry-decorated move_batch.
\* The decorator (predicate: any Exception) calls the body again until its
\* deadline has passed and then raises RetryError; process_batch counts that
\* as one failed attempt.
process_batch(tk, resp, deadline) ==
    LET n == tk.reqs + 1
        exc == move_batch(tk.batch, resp, n)
        retry_error == [type |-> "RetryError", req |-> n]
    IN  IF exc = NoExc
        THEN Outcome3([tk EXCEPT !.reqs = n, !.outcome = "ok"],
                      MoveSuccess(tk.batch, tk.target_ou), <<>>)
        ELSE IF ~deadline /\ tk.inner + 1 < MaxInner
        THEN Outcome3([tk EXCEPT !.reqs = n, !.inner = @ + 1, !.last = exc],
                      <<>>, <<>>)
        ELSE IF ~IsLastAttempt(tk.attempt)
        THEN Outcome3([tk EXCEPT !.reqs = n, !.inner = 0, !.attempt = @ + 1,
                                 !.sleeps = @ + 1, !.last = retry_error],
                      <<>>, <<>>)
        ELSE IF Keyed(tk.batch)
        THEN Outcome3([tk EXCEPT !.reqs = n, !.attempt = @ + 1,
                                 !.last = retry_error, !.outcome = "fail"],
                      <<>>, Failure(tk.batch, retry_error))
        ELSE Outcome3([tk EXCEPT !.reqs = n, !.attempt = @ + 1,
                                 !.last = [type |-> "KeyError", req |-> n],
                                 !.outcome = "raise"],
                      <<>>, <<>>)

DeviceSuccess(tk, status) ==
    <<[deviceId |-> tk.batch[1].deviceId,
       annotatedAssetId |-> AssetOf(tk.batch[1]),
       status |-> status]>>

\* One request of process_reboot_device / process_reset_device /
\* process_deprovision_device. The task's exception reaches the collecting
\* loop of the caller, which turns it into a failure record.
process_device_request(tk, resp, sent) ==
    LET n == tk.reqs + 1
        exc == [type |-> "HttpError", req |-> n]
    IN  IF resp = "ok"
        THEN Outcome3([tk EXCEPT !.reqs = n, !.outcome = "ok"],
                      DeviceSuccess(tk, sent), <<>>)
        ELSE IF resp = "refresh"
        THEN Outcome3([tk EXCEPT !.reqs = n, !.attempt = @ + 1,
                                 !.last = [type |-> "RefreshError", req |-> n],
                                 !.outcome = "fail"],
                      <<>>, Failure(tk.batch, [type |-> "RefreshError", req |-> n]))
        ELSE IF resp = "illegal"
        THEN Outcome3([tk EXCEPT !.reqs = n, !.outcome = "already",
                                 !.last = [type |-> "Illegal", req |-> n]],
                      DeviceSuccess(tk, "Already deprovisioned"), <<>>)
        ELSE IF ~IsLastAttempt(tk.attempt)
        THEN Outcome3([tk EXCEPT !.reqs = n, !.attempt = @ + 1,
                                 !.sleeps = @ + 1, !.last = exc],
                      <<>>, <<>>)
        ELSE Outcome3([tk EXCEPT !.reqs = n, !.attempt = @ + 1, !.last = exc,
                                 !.outcome = "fail"],
                      <<>>, Failure(tk.batch, exc))

\* A collecting loop that does not look at the returned status.
deprovision_category_blind(result) == "success"

\* deprovision's collecting loop: where a returned result goes.
deprovision_category(result) ==
    IF result.status = "Already deprovisioned" THEN "already_deprovisioned"
    ELSE "success"

Extend(res, success, failure) ==
    [res EXCEPT !.success = @ \o success, !.failure = @ \o failure]

ExtendDeprovision(res, returned, failure) ==
    LET cat(r) == deprovision_category(r)
    IN  [res EXCEPT
            !.success = @ \o SelectSeq(returned, LAMBDA r : cat(r) = "success"),
            !.already_deprovisioned =
                @ \o SelectSeq(returned, LAMBDA r : cat(r) = "already_deprovisioned"),
            !.failure = @ \o failure]

\* ------------------------------------------------------------ workers
Pending(t, kind) ==
    /\ pc \in {"running", "phase2"}
    /\ tasks[t].kind = kind
    /\ tasks[t].outcome = "pending"

\* A worker sends the moveDevicesToOu request of its batch.
MoveRequest(t) ==
    /\ Pending(t, "move")
    /\ \E resp \in Responses(tasks[t], remote) : \E deadline \in BOOLEAN :
          LET s == process_batch(tasks[t], resp, deadline)
              ids == BatchIds(tasks[t].batch)
          IN  /\ tasks' = [tasks EXCEPT ![t] = s.task]
              /\ move_requests' = move_requests \cup ids
              /\ remote' = IF resp = "ok"
                           THEN [i \in DeviceIndex |->
                                   IF DeviceIds[i] \in ids
                                   THEN [remote[i] EXCEPT !.orgUnitPath =
                                            <<Slash>> \o tasks[t].target_ou]
                                   ELSE remote[i]]
                           ELSE remote
              /\ IF pc = "phase2"
                 THEN /\ move_results' = Extend(move_results, s.success, s.failure)
                      /\ UNCHANGED results
                 ELSE /\ results' = Extend(results, s.success, s.failure)
                      /\ UNCHANGED move_results
    /\ UNCHANGED <<pc, call, device_cache, batch_results, move_arg, lookups,
                   aside_vars>>

\* A worker sends the REBOOT command of its device.
RebootRequest(t) ==
    /\ Pending(t, "reboot")
    /\ \E resp \in Responses(tasks[t], remote) :
          LET s == process_device_request(tasks[t], resp, "REBOOT command sent")
              b == tasks[t].grp
          IN  /\ tasks' = [tasks EXCEPT ![t] = s.task]
              /\ batch_results' =
                    [batch_results EXCEPT ![b] = Extend(@, s.success, s.failure)]
    /\ UNCHANGED <<pc, call, remote, device_cache, results, move_results,
                   move_arg, move_requests, lookups, aside_vars>>

\* process_reboot_batch returns once its devices are done, and the caller
\* extends its report by the batch's lists.
RebootBatchReturn(b) ==
    /\ pc = "running"
    /\ call.op = "reboot_devices"
    /\ ~batch_results[b].merged
    /\ \A t \in 1..Len(tasks) : tasks[t].grp = b => tasks[t].outcome # "pending"
    /\ results' = Extend(results, batch_results[b].success, batch_results[b].failure)
    /\ batch_results' = [batch_results EXCEPT ![b].merged = TRUE]
    /\ UNCHANGED <<pc, call, remote, device_cache, tasks, move_results,
                   move_arg, move_requests, lookups, aside_vars>>

\* A worker sends the WIPE_USERS command of its device.
WipeRequest(t) ==
    /\ Pending(t, "wipe")
    /\ \E resp \in Responses(tasks[t], remote) :
          LET s == process_device_request(tasks[t], resp, "WIPE_USERS command sent")
          IN  /\ tasks' = [tasks EXCEPT ![t] = s.task]
              /\ results' = Extend(results, s.success, s.failure)
    /\ UNCHANGED <<pc, call, remote, device_cache, batch_results, move_results,
                   move_arg, move_requests, lookups, aside_vars>>

\* process_deprovision_device on a device looked up as DEPROVISIONED:
\* it returns at once, without a request.
DeprovisionSkip(t) ==
    /\ Pending(t, "deprovision")
    /\ tasks[t].batch[1].status = "DEPROVISIONED"
    /\ tasks' = [tasks EXCEPT ![t].outcome = "already"]
    /\ results' = ExtendDeprovision(results,
                      DeviceSuccess(tasks[t], "Already deprovisioned"), <<>>)
    /\ UNCHANGED <<pc, call, remote, device_cache, batch_results, move_results,
                   move_arg, move_requests, lookups, aside_vars>>

\* A worker sends the deprovision action of its device. "lost": the action
\* takes effect and the response does not arrive.
DeprovisionRequest(t) ==
    /\ Pending(t, "deprovision")
    /\ tasks[t].batch[1].status # "DEPROVISIONED"
    /\ \E resp \in Responses(tasks[t], remote) :
          LET s == process_device_request(tasks[t], resp, "Deprovisioned")
              ids == BatchIds(tasks[t].batch)
          IN  /\ tasks' = [tasks EXCEPT ![t] = s.task]
              /\ results' = ExtendDeprovision(results, s.success, s.failure)
              /\ remote' = IF resp \in {"ok", "lost"}
                           THEN [i \in DeviceIndex |->
                                   IF DeviceIds[i] \in ids
                                   THEN [remote[i] EXCEPT !.status = "DEPROVISIONED"]
                                   ELSE remote[i]]
                           ELSE remote
    /\ UNCHANGED <<pc, call, device_cache, batch_results, move_results,
                   move_arg, move_requests, lookups, aside_vars>>

\* ------------------------------------------------------------ returning
\* A collecting loop that stops at the first completed future.
JoinedFirst == \E t \in 1..Len(tasks) : tasks[t].outcome # "pending"

\* Leaving the "with ThreadPoolExecutor()" block: every future is done (and
\* every reboot batch has handed its lists over).
Joined ==
    /\ AllDone
    /\ call.op = "reboot_devices" =>
          \A b \in 1..Len(batch_results) : batch_results[b].merged

\* future.result() re-raises what process_batch raised.
Raising == \E t \in 1..Len(tasks) : tasks[t].outcome = "raise"

\* The devices deprovision hands to its second phase, and update_os to its.
\* A second phase that also takes the devices found already deprovisioned.
deprovision_move_devices_all(res) ==
    [j \in 1..Len(res.success) |-> res.success[j].annotatedAssetId]
    \o [j \in 1..Len(res.already_deprovisioned) |->
            res.already_deprovisioned[j].annotatedAssetId]

deprovision_move_devices(res) ==
    [j \in 1..Len(res.success) |-> res.success[j].annotatedAssetId]

update_os_move_devices(res) ==
    [j \in 1..Len(res.success) |-> res.success[j].deviceId]

\* A second phase that runs whether or not a target OU was given.
HasPhaseTwoAnyTarget ==
    \/ call.op = "deprovision" /\ results.success # <<>>
    \/ call.op = "update_os" /\ results.success # <<>>

HasPhaseTwo ==
    \/ call.op = "deprovision" /\ call.target_ou # NoTarget /\ results.success # <<>>
    \/ call.op = "update_os" /\ results.success # <<>>

\* The pool is joined and the call has no second phase: it returns its
\* report, or the exception of a batch leaves it.
Return ==
    /\ pc = "running"
    /\ Joined
    /\ ~HasPhaseTwo
    /\ pc' = IF Raising THEN "raised" ELSE "returned"
    /\ call' = [call EXCEPT !.raised = IF Raising THEN "KeyError" ELSE "none"]
    /\ UNCHANGED <<remote, device_cache, tasks, batch_results, results,
                   move_results, move_arg, move_requests, lookups, aside_vars>>

\* deprovision / update_os call move_devices_to_ou with the devices of
\* results['success'].
StartPhaseTwo ==
    /\ pc = "running"
    /\ Joined
    /\ HasPhaseTwo
    /\ LET by_id == call.op = "update_os"
           devices == IF by_id THEN update_os_move_devices(results)
                      ELSE deprovision_move_devices(results)
       IN  \E answers \in Answers(Len(devices)) :
              LET s == MoveSetup(devices,
                                 IF by_id THEN UpdatingOu ELSE call.target_ou,
                                 IF by_id THEN "deviceId" ELSE "annotatedAssetId",
                                 answers, device_cache, remote)
              IN  /\ move_arg' = devices
                  /\ tasks' = s.tasks
                  /\ device_cache' = s.cache
                  /\ lookups' = lookups + s.lookups
    /\ pc' = "phase2"
    /\ UNCHANGED <<call, remote, batch_results, results, move_results,
                   move_requests, aside_vars>>

\* The nested move_devices_to_ou is over: its lists go under move_success
\* and move_failure, or its exception leaves the public call.
ReturnPhaseTwo ==
    /\ pc = "phase2"
    /\ AllDone
    /\ pc' = IF Raising THEN "raised" ELSE "returned"
    /\ call' = [call EXCEPT !.raised = IF Raising THEN "KeyError" ELSE "none"]
    /\ results' = IF Raising THEN results
                  ELSE [results EXCEPT !.move_success = move_results.success,
                                       !.move_failure = move_results.failure]
    /\ UNCHANGED <<remote, device_cache, tasks, batch_results, move_results,
                   move_arg, move_requests, lookups, aside_vars>>

\* ------------------------------------------------------------ partitioner alone
PartLists == UNION {[1..n -> {"x", "y"}] : n \in 0..MaxPartLen}

ApplyPartition ==
    /\ part_out = <<"unset">>
    /\ part_out' = <<"set", Partition(part_in.list, part_in.size)>>
    /\ UNCHANGED <<part_in, orch_vars, nested_vars, find_vars, req_vars, cli_vars, list_vars, sync_vars>>

\* ------------------------------------------------------------ get_nested_value alone
\* JSON values as the code tells them apart with isinstance: a dict
\* (function from keys to values), a list (sequence of values), a string,
\* or null (None).
Null == [t |-> "null"]

Str(x) == [t |-> "str", s |-> x]

Dict(f) == [t |-> "dict", d |-> f]

List(l) == [t |-> "list", l |-> l]

NestedKeys == {"a", "b"}

\* The values of nesting depth at most d. Key "a" may hold any value one
\* level down, key "b" a string or null.
RECURSIVE Values(_)
Values(d) ==
    IF d = 0 THEN {Str("x"), Null}
    ELSE LET below == Values(d - 1)
             dicts == {Dict(f) : f \in UNION {[D -> below] : D \in {{}, {"a"}}}}
                      \cup {Dict(f @@ ("b" :> w)) :
                               f \in UNION {[D -> below] : D \in {{}, {"a"}}},
                               w \in {Str("x"), Null}}
             lists == {List(<<>>)} \cup {List(<<w>>) : w \in below}
         IN  below \cup dicts \cup lists

\* The dotted keys: 1..MaxPath segments joined by ".", as a sequence of
\* tokens in which "." is a token of its own.
RECURSIVE Join(_)
Join(path) ==
    IF Len(path) = 1 THEN path
    ELSE <<Head(path), ".">> \o Join(Tail(path))

NestedPaths == UNION {[1..n -> NestedKeys] : n \in 1..MaxPath}

\* key.split('.') on a key whose segments are single tokens: the tokens
\* between the dots.
Split(key) == SelectSeq(key, LAMBDA k : k # ".")

\* dict.get(k): the value under k, None when k is missing.
Get(dict, k) == IF k \in DOMAIN dict.d THEN dict.d[k] ELSE Null

Returned(value) == [raised |-> "none", value |-> value]

Raised(exc) == [raised |-> exc, value |-> Null]

\* The loop of a get_nested_value that indexes the dict (data[k]) and so
\* raises KeyError on a missing key.
RECURSIVE nested_loop_strict(_, _)
nested_loop_strict(data, keys) ==
    IF keys = <<>> THEN Returned(data)
    ELSE IF data.t = "dict" /\ Head(keys) \notin DOMAIN data.d THEN Raised("KeyError")
    ELSE LET step == IF data.t = "dict" THEN Returned(Get(data, Head(keys)))
                     ELSE IF data.t = "list" /\ data.l # <<>>
                     THEN (IF data.l[1].t = "dict"
                           THEN Returned(Get(data.l[1], Head(keys)))
                           ELSE Raised("caught"))
                     ELSE Raised("else")
         IN  IF step.raised # "none" THEN Returned(Null)
             ELSE IF step.value = Null THEN Returned(Null)
             ELSE nested_loop_strict(step.value, Tail(keys))

\* The loop of get_nested_value over the split key. A list is entered by its
\* first element; data[0].get(k) on a first element that is no dict raises
\* AttributeError, which the code catches.
RECURSIVE nested_loop(_, _)
nested_loop(data, keys) ==
    IF keys = <<>> THEN Returned(data)
    ELSE LET step == IF data.t = "dict" THEN Returned(Get(data, Head(keys)))
                     ELSE IF data.t = "list" /\ data.l # <<>>
                     THEN (IF data.l[1].t = "dict"
                           THEN Returned(Get(data.l[1], Head(keys)))
                           ELSE Raised("caught"))
                     ELSE Raised("else")
         IN  IF step.raised # "none" THEN Returned(Null)
             ELSE IF step.value = Null THEN Returned(Null)
             ELSE nested_loop(step.value, Tail(keys))

get_nested_value(data, key) == nested_loop(data, Split(key))

ApplyNested ==
    /\ nested_out = Unset
    /\ nested_out' = <<"set", get_nested_value(nested_in.data, nested_in.key)>>
    /\ UNCHANGED <<nested_in, orch_vars, part_vars, find_vars, req_vars, cli_vars, list_vars, sync_vars>>

\* ------------------------------------------------------------ _make_request alone
\* An optional field of AeriesResponse: unset (None), or set to x.
Nothing == <<>>

Some(x) == <<x>>

Methods == {"GET", "POST", "PUT", "DELETE"}

StatusCodes == {200, 201, 204, 301, 400, 401, 403, 404, 500, 503}

\* Response bodies, as token sequences.
Bodies ==
    {<<"{", "}">>, <<"{", "k", ":", "1", "}">>, <<"[", "]">>, <<"null">>, <<"1">>,
     <<"<html>">>, <<"{">>, <<"{", "k", ":", "}">>, <<>>}

\* Texts of the exceptions of the HTTP layer (requests.exceptions.RequestException).
TransportErrors == {"ConnectionError", "Timeout", "ConnectionResetError"}

\* response.json() on the bodies above: the parsed value, or ValueError.
ParseScalar(tok) ==
    IF tok = "null" THEN Returned(Null)
    ELSE IF tok = "1" THEN Returned(Str("1"))
    ELSE Raised("ValueError")

ParseJson(text) ==
    IF Len(text) = 1 THEN ParseScalar(text[1])
    ELSE IF text = <<"[", "]">> THEN Returned(List(<<>>))
    ELSE IF text = <<"{", "}">> THEN Returned(Dict(<<>>))
    ELSE IF Len(text) = 5 /\ text[1] = "{" /\ text[3] = ":" /\ text[5] = "}"
              /\ ParseScalar(text[4]).raised = "none"
    THEN Returned(Dict(text[2] :> ParseScalar(text[4]).value))
    ELSE Raised("ValueError")

AeriesResponse(success, data, status_code, message, error) ==
    [success |-> success, data |-> data, status_code |-> status_code,
     message |-> message, error |-> error]

\* A _make_request that lets the failure of response.json() out.
make_request_unguarded_json(io) ==
    IF io.transport # Nothing
    THEN Returned(AeriesResponse(FALSE, Nothing, Nothing,
                                 "Network error occurred", io.transport))
    ELSE IF io.status_code = 200
    THEN (IF ParseJson(io.text).raised = "none"
          THEN Returned(AeriesResponse(TRUE, Some(ParseJson(io.text).value),
                                       Some(io.status_code),
                                       "Request successful", Nothing))
          ELSE Raised("ValueError"))
    ELSE IF io.status_code = 404
    THEN Returned(AeriesResponse(FALSE, Nothing, Some(io.status_code),
                                 "Resource not found", Some("404 Not Found")))
    ELSE Returned(AeriesResponse(FALSE, Nothing, Some(io.status_code),
                                 "Request failed with status", Some(io.text)))

\* BaseAeriesClient._make_request. io is what session.request does: it
\* raises a RequestException (transport = its text) or answers with
\* status_code and text.
make_request(io) ==
    IF io.transport # Nothing
    THEN Returned(AeriesResponse(FALSE, Nothing, Nothing,
                                 "Network error occurred", io.transport))
    ELSE IF io.status_code = 200
    THEN (IF ParseJson(io.text).raised = "none"
          THEN Returned(AeriesResponse(TRUE, Some(ParseJson(io.text).value),
                                       Some(io.status_code),
                                       "Request successful", Nothing))
          ELSE Returned(AeriesResponse(TRUE, Some(io.text), Some(io.status_code),
                                       "Request successful (non-JSON response)",
                                       Nothing)))
    ELSE IF io.status_code = 404
    THEN Returned(AeriesResponse(FALSE, Nothing, Some(io.status_code),
                                 "Resource not found", Some("404 Not Found")))
    ELSE Returned(AeriesResponse(FALSE, Nothing, Some(io.status_code),
                                 "Request failed with status", Some(io.text)))

RequestInputs ==
    {[method |-> m, transport |-> Some(e), status_code |-> 0, text |-> <<>>] :
        m \in Methods, e \in TransportErrors}
    \cup {[method |-> m, transport |-> Nothing, status_code |-> c, text |-> b] :
        m \in Methods, c \in StatusCodes, b \in Bodies}

ApplyRequest ==
    /\ req_out = Unset
    /\ req_out' = <<"set", make_request(req_in)>>
    /\ UNCHANGED <<req_in, orch_vars, part_vars, nested_vars, find_vars, cli_vars, list_vars, sync_vars>>

\* ------------------------------------------------------------ the CLI scripts
\* json.dumps of a dict with a 'success' key, printed on standard output.
Json(success) == [success |-> success]

\* A finished script run: what it printed and its exit status. A main() that
\* returns without sys.exit ends the process with status 0.
Run(stdout, exit) == [stdout |-> stdout, exit |-> exit]

\* What the operation of a script does: "ok", "fail" (it reports its failure
\* as data: False, an 'error' key, a 'failure' list, success False), "empty"
\* (move_users_to_ou: neither list filled), "raise" (an exception, e.g. of
\* the client's construction), "import_error".
CliOps(script) ==
    IF script = "move_user" THEN {"ok", "fail", "empty", "raise"}
    ELSE IF script = "update_device_notes" THEN {"ok", "fail", "raise", "import_error"}
    ELSE {"ok", "fail", "raise"}

\* scripts/move_device.py: main() and move_device().
move_device_main(argc, op) ==
    IF argc # 2 THEN Run(<<Json(FALSE)>>, 1)
    ELSE IF op = "ok" THEN Run(<<Json(TRUE)>>, 0)
    ELSE Run(<<Json(FALSE)>>, 0)

\* scripts/move_user.py
move_user_main(argc, op) ==
    IF argc < 2 THEN Run(<<Json(FALSE)>>, 1)
    ELSE IF op = "raise" THEN Run(<<Json(FALSE)>>, 1)
    ELSE IF op = "fail" THEN Run(<<Json(FALSE)>>, 0)
    ELSE IF op = "ok" THEN Run(<<Json(TRUE)>>, 0)
    ELSE Run(<<Json(FALSE)>>, 0)

\* scripts/suspend_user.py
suspend_user_main(argc, op) ==
    IF argc < 1 THEN Run(<<Json(FALSE)>>, 1)
    ELSE IF op = "raise" THEN Run(<<Json(FALSE)>>, 1)
    ELSE IF op = "fail" THEN Run(<<Json(FALSE)>>, 0)
    ELSE Run(<<Json(TRUE)>>, 0)

\* scripts/unsuspend_user.py
unsuspend_user_main(argc, op) ==
    IF argc < 1 THEN Run(<<Json(FALSE)>>, 1)
    ELSE IF op = "raise" THEN Run(<<Json(FALSE)>>, 1)
    ELSE IF op = "fail" THEN Run(<<Json(FALSE)>>, 0)
    ELSE Run(<<Json(TRUE)>>, 0)

\* scripts/reset_devices.py: reset_devices() wraps whatever report
\* reset_device returns in success True; exit is 0 if result.get("success").
reset_devices_main(argc, op) ==
    IF argc < 1 THEN Run(<<Json(FALSE)>>, 1)
    ELSE LET result == IF op = "raise" THEN Json(FALSE) ELSE Json(TRUE)
         IN  Run(<<result>>, IF result.success THEN 0 ELSE 1)

\* scripts/update_device_notes.py
update_device_notes_main(argc, op) ==
    IF argc # 2 THEN Run(<<Json(FALSE)>>, 1)
    ELSE IF op \in {"import_error", "raise"} THEN Run(<<Json(FALSE)>>, 1)
    ELSE LET result == Json(op = "ok")
         IN  Run(<<result>>, IF result.success THEN 0 ELSE 1)

AeriesArgs == {"missing", "no_params", "params", "bad_params"}

\* "ok" / "fail": the method returns an AeriesResponse with success True /
\* False; "plain": it returns another value; "raise": it raises.
AeriesOps == {"init_error", "no_method", "ok", "fail", "plain", "raise"}

\* scripts/aeries_execute.py: sys.exit(main()). argparse ends the run with
\* status 2 and a usage text on standard error when a required flag is missing.
aeries_execute_main(args, op) ==
    IF args = "missing" THEN Run(<<>>, 2)
    ELSE IF op = "init_error" THEN Run(<<Json(FALSE)>>, 1)
    ELSE IF op = "no_method" THEN Run(<<Json(FALSE)>>, 1)
    ELSE IF args = "bad_params" THEN Run(<<Json(FALSE)>>, 1)
    ELSE IF op = "raise" THEN Run(<<Json(FALSE)>>, 1)
    ELSE IF op = "fail" THEN Run(<<Json(FALSE)>>, 0)
    ELSE Run(<<Json(TRUE)>>, 0)

PositionalScripts ==
    {"move_device", "move_user", "suspend_user", "unsuspend_user",
     "reset_devices", "update_device_notes"}

CliInputs ==
    {[script |-> sc, argc |-> n, args |-> "positional", op |-> op] :
        sc \in PositionalScripts, n \in 0..MaxArgc, op \in {"ok", "fail", "empty", "raise", "import_error"}}
    \cup {[script |-> "aeries_execute", argc |-> 0, args |-> a, op |-> op] :
        a \in AeriesArgs, op \in AeriesOps}

Main(in) ==
    IF in.script = "move_device" THEN move_device_main(in.argc, in.op)
    ELSE IF in.script = "move_user" THEN move_user_main(in.argc, in.op)
    ELSE IF in.script = "suspend_user" THEN suspend_user_main(in.argc, in.op)
    ELSE IF in.script = "unsuspend_user" THEN unsuspend_user_main(in.argc, in.op)
    ELSE IF in.script = "reset_devices" THEN reset_devices_main(in.argc, in.op)
    ELSE IF in.script = "update_device_notes"
    THEN update_device_notes_main(in.argc, in.op)
    ELSE aeries_execute_main(in.args, in.op)

RunScript ==
    /\ cli_out = Unset
    /\ cli_out' = <<"set", Main(cli_in)>>
    /\ UNCHANGED <<cli_in, orch_vars, part_vars, nested_vars, find_vars, req_vars,
                   list_vars, sync_vars>>

\* ------------------------------------------------------------ specifications
InitRemote ==
    {[i \in DeviceIndex |->
        [status |-> IF i = d THEN "DEPROVISIONED" ELSE "ACTIVE",
         orgUnitPath |-> InitialOu(i)]] : d \in {0, MaxDevices}}

IdlePart ==
    /\ part_in = [list |-> <<>>, size |-> 1]
    /\ part_out = Unset

IdleNested ==
    /\ nested_in = <<>>
    /\ nested_out = Unset

IdleFind ==
    /\ find_n = 0
    /\ find_last = Unset
    /\ find_fetched = <<>>

IdleReq ==
    /\ req_in = <<>>
    /\ req_out = Unset

IdleCli ==
    /\ cli_in = <<>>
    /\ cli_out = Unset

IdleList ==
    /\ list_in = <<>>
    /\ list_out = Unset

IdleSync ==
    /\ chromebooks = <<>>
    /\ sync = Unset

InitOrch ==
    /\ pc = "idle"
    /\ call = NewCall("none", <<>>, "annotatedAssetId", NoTarget, 0)
    /\ device_cache = <<>>
    /\ tasks = <<>>
    /\ batch_results = <<>>
    /\ results = EmptyResults
    /\ move_results = EmptyResults
    /\ move_arg = <<>>
    /\ move_requests = {}
    /\ lookups = 0

Init ==
    /\ InitOrch
    /\ remote \in InitRemote
    /\ IdlePart
    /\ IdleNested
    /\ IdleFind
    /\ IdleReq
    /\ IdleCli
    /\ IdleList
    /\ IdleSync

Next ==
    \/ CallMove
    \/ CallReboot
    \/ CallDeprovision
    \/ CallResetDevice
    \/ CallUpdateOs
    \/ \E t \in 1..Len(tasks) : MoveRequest(t)
    \/ \E t \in 1..Len(tasks) : RebootRequest(t)
    \/ \E b \in 1..Len(batch_results) : RebootBatchReturn(b)
    \/ \E t \in 1..Len(tasks) : WipeRequest(t)
    \/ \E t \in 1..Len(tasks) : DeprovisionSkip(t)
    \/ \E t \in 1..Len(tasks) : DeprovisionRequest(t)
    \/ Return
    \/ StartPhaseTwo
    \/ ReturnPhaseTwo

Spec == Init /\ [][Next]_vars

InitPart ==
    /\ InitOrch
    /\ remote = CHOOSE r \in InitRemote : TRUE
    /\ part_in \in [list : PartLists, size : 1..MaxPartSize]
    /\ part_out = <<"unset">>
    /\ IdleNested
    /\ IdleFind
    /\ IdleReq
    /\ IdleCli
    /\ IdleList
    /\ IdleSync

NextPart == ApplyPartition

SpecPart == InitPart /\ [][NextPart]_vars

InitNested ==
    /\ InitOrch
    /\ remote = CHOOSE r \in InitRemote : TRUE
    /\ IdlePart
    /\ nested_in \in {[data |-> d, path |-> p, key |-> Join(p)] :
                        d \in Values(MaxPath), p \in NestedPaths}
    /\ nested_out = Unset
    /\ IdleFind
    /\ IdleReq
    /\ IdleCli
    /\ IdleList
    /\ IdleSync

NextNested == ApplyNested

SpecNested == InitNested /\ [][NextNested]_vars

InitReq ==
    /\ InitOrch
    /\ remote = CHOOSE r \in InitRemote : TRUE
    /\ IdlePart
    /\ IdleNested
    /\ IdleFind
    /\ req_in \in RequestInputs
    /\ req_out = Unset
    /\ IdleCli
    /\ IdleList
    /\ IdleSync

NextReq == ApplyRequest

SpecReq == InitReq /\ [][NextReq]_vars

InitCli ==
    /\ InitOrch
    /\ remote = CHOOSE r \in InitRemote : TRUE
    /\ IdlePart
    /\ IdleNested
    /\ IdleFind
    /\ IdleReq
    /\ cli_in \in {in \in CliInputs :
                      in.script \in PositionalScripts => in.op \in CliOps(in.script)}
    /\ cli_out = Unset
    /\ IdleList
    /\ IdleSync

NextCli == RunScript

SpecCli == InitCli /\ [][NextCli]_vars

\* ------------------------------------------------------------ lookups alone
\* Calls of find_device, of device.get_device and of get_device_info (the
\* resolution step of every mutating operation) on one Devices instance, with
\* its cache, against a fleet that no call changes.
MaxFindCalls == 2

\* Device 1 has notes, the other devices have none.
FindRemote ==
    [i \in DeviceIndex |->
        IF i = 1
        THEN [status |-> "ACTIVE", orgUnitPath |-> InitialOu(i), notes |-> "n1"]
        ELSE [status |-> "ACTIVE", orgUnitPath |-> InitialOu(i)]]

FindIdentifiers ==
    {Identifier(i, t) : i \in 1..(MaxDevices + 1),
                        t \in {"annotatedAssetId", "serialNumber"}}

\* The *args of the calls: none, one field, several fields.
FieldSets == {<<>>, <<"notes">>, <<"status">>, <<"deviceId", "notes">>}

\* device.get_device(identifier, *args): by asset tag, then, if that returned
\* None, by serial number.
get_device(identifier, fields, answers, cache, rem) ==
    LET query == find_device(identifier, "annotatedAssetId", fields,
                             answers[1], cache, rem)
        again == find_device(identifier, "serialNumber", fields,
                             answers[2], query.cache, rem)
    IN  IF query.raised = "none" /\ query.ret.kind = "none"
        THEN [again EXCEPT !.calls = query.calls + again.calls]
        ELSE query

\* The record of one call: its arguments, whether the key was cached when it
\* started, and what came back.
FindCall(op, identifier, identifier_type, fields, answer, hit, r, list) ==
    <<"set", [op |-> op, identifier |-> identifier,
              identifier_type |-> identifier_type, fields |-> fields,
              answer |-> answer, hit |-> hit, ret |-> r.ret,
              raised |-> r.raised, calls |-> r.calls, list |-> list]>>

\* The fetch that stored each cache entry: its fields and what it returned.
Fetched(fetched, cache, r, fields) ==
    [k \in DOMAIN r.cache |->
        IF k \in DOMAIN cache THEN fetched[k]
        ELSE [fields |-> fields, ret |-> r.ret]]

FindDevice ==
    /\ find_n < MaxFindCalls
    /\ \E identifier \in FindIdentifiers, identifier_type \in IdentifierTypes,
          fields \in FieldSets, answer \in {"answer", "error"} :
          LET r == find_device(identifier, identifier_type, fields, answer,
                               device_cache, remote)
              hit == CacheKey(identifier_type, identifier) \in DOMAIN device_cache
          IN  /\ device_cache' = r.cache
              /\ lookups' = lookups + r.calls
              /\ find_last' = FindCall("find_device", identifier, identifier_type,
                                       fields, answer, hit, r, <<>>)
              /\ find_fetched' = Fetched(find_fetched, device_cache, r, fields)
    /\ find_n' = find_n + 1
    /\ UNCHANGED <<pc, call, remote, tasks, batch_results, results, move_results,
                   move_arg, move_requests, part_vars, nested_vars, req_vars,
                   cli_vars, list_vars, sync_vars>>

GetDevice ==
    /\ find_n < MaxFindCalls
    /\ \E identifier \in FindIdentifiers, fields \in FieldSets,
          answers \in Answers(2) :
          LET r == get_device(identifier, fields, answers, device_cache, remote)
              hit == CacheKey("annotatedAssetId", identifier) \in DOMAIN device_cache
          IN  /\ device_cache' = r.cache
              /\ lookups' = lookups + r.calls
              /\ find_last' = FindCall("get_device", identifier, "annotatedAssetId",
                                       fields, answers[1], hit, r, <<>>)
              /\ find_fetched' = Fetched(find_fetched, device_cache, r, fields)
    /\ find_n' = find_n + 1
    /\ UNCHANGED <<pc, call, remote, tasks, batch_results, results, move_results,
                   move_arg, move_requests, part_vars, nested_vars, req_vars,
                   cli_vars, list_vars, sync_vars>>

\* The resolution step of deprovision, reset_device and update_os, and of
\* move_devices_to_ou and reboot_devices with their default identifier_type.
GetDeviceInfo ==
    /\ find_n < MaxFindCalls
    /\ \E identifier \in FindIdentifiers, answer \in {"answer", "error"} :
          LET g == get_device_info(<<identifier>>, "annotatedAssetId", <<answer>>,
                                   device_cache, remote)
              hit == CacheKey("annotatedAssetId", identifier) \in DOMAIN device_cache
              r == [ret |-> NoneRet, raised |-> "none", calls |-> g.lookups,
                    cache |-> g.cache]
          IN  /\ device_cache' = g.cache
              /\ lookups' = lookups + g.lookups
              /\ find_last' = FindCall("get_device_info", identifier,
                                       "annotatedAssetId", InfoFields, answer, hit,
                                       r, g.list)
              /\ find_fetched' = Fetched(find_fetched, device_cache, r, InfoFields)
    /\ find_n' = find_n + 1
    /\ UNCHANGED <<pc, call, remote, tasks, batch_results, results, move_results,
                   move_arg, move_requests, part_vars, nested_vars, req_vars,
                   cli_vars, list_vars, sync_vars>>

InitFind ==
    /\ InitOrch
    /\ remote = FindRemote
    /\ IdlePart
    /\ IdleNested
    /\ IdleFind
    /\ IdleReq
    /\ IdleCli
    /\ IdleList
    /\ IdleSync

NextFind == FindDevice \/ GetDevice \/ GetDeviceInfo

SpecFind == InitFind /\ [][NextFind]_vars

\* ------------------------------------------------------------ list_all_devices_by_ou alone
MaxPages == 3

MaxPageLen == 2

\* The devices a page may hold: one with notes, one without.
PageDevices == {1, MaxDevices}

\* The pages the service holds for the organizational unit: page p carries
\* its devices and the token of page p + 1, the last page carries no token
\* (NoToken). fail_at is the request whose execute() raises (0: none does).
NoToken == 0

PageContents == UNION {[1..n -> PageDevices] : n \in 0..MaxPageLen}

Paged(contents) ==
    [p \in 1..Len(contents) |->
        [chromeosdevices |-> [j \in 1..Len(contents[p]) |->
                                 DeviceRecord(contents[p][j], FindRemote)],
         nextPageToken |-> IF p < Len(contents) THEN p + 1 ELSE NoToken]]

ListInputs ==
    {[pages |-> Paged(c), fail_at |-> f] :
        c \in UNION {[1..n -> PageContents] : n \in 1..MaxPages},
        f \in 0..MaxPages}

\* A loop that keeps only the devices of the page it has just read.
RECURSIVE list_pages_last_only(_, _, _, _, _)
list_pages_last_only(pages, fail_at, page_token, total_requests, all_devices) ==
    LET n == total_requests + 1
    IN  IF fail_at = n
        THEN [error |-> TRUE, all_devices |-> <<>>, total_requests |-> n]
        ELSE LET page == pages[page_token]
                 devices == page.chromeosdevices
                 processed == [j \in 1..Len(devices) |->
                                  process_device(devices[j], DefaultFields)]
             IN  IF page.nextPageToken = NoToken
                 THEN [error |-> FALSE, all_devices |-> processed,
                       total_requests |-> n]
                 ELSE list_pages_last_only(pages, fail_at, page.nextPageToken,
                                           n, processed)

\* The while loop of list_all_devices_by_ou: request the page of page_token,
\* append its processed devices, go on while the page carries a token. An
\* exception of a request ends the call in its except branch.
RECURSIVE list_pages(_, _, _, _, _)
list_pages(pages, fail_at, page_token, total_requests, all_devices) ==
    LET n == total_requests + 1
    IN  IF fail_at = n
        THEN [error |-> TRUE, all_devices |-> <<>>, total_requests |-> n]
        ELSE LET page == pages[page_token]
                 devices == page.chromeosdevices
                 processed == [j \in 1..Len(devices) |->
                                  process_device(devices[j], DefaultFields)]
             IN  IF page.nextPageToken = NoToken
                 THEN [error |-> FALSE, all_devices |-> all_devices \o processed,
                       total_requests |-> n]
                 ELSE list_pages(pages, fail_at, page.nextPageToken, n,
                                 all_devices \o processed)

\* list_all_devices_by_ou (formatted=False): the response dict.
list_all_devices_by_ou(pages, fail_at) ==
    LET r == list_pages(pages, fail_at, 1, 0, <<>>)
    IN  IF r.error THEN [error |-> "An error occurred"]
        ELSE IF r.all_devices = <<>>
        THEN [message |-> "No devices found", devices |-> <<>>]
        ELSE [message |-> "retrieved", devices |-> r.all_devices,
              total_devices |-> Len(r.all_devices),
              api_calls |-> r.total_requests]

ApplyList ==
    /\ list_out = Unset
    /\ list_out' = <<"set", list_all_devices_by_ou(list_in.pages, list_in.fail_at)>>
    /\ UNCHANGED <<list_in, orch_vars, part_vars, nested_vars, find_vars, req_vars,
                   cli_vars, sync_vars>>

InitList ==
    /\ InitOrch
    /\ remote = FindRemote
    /\ IdlePart
    /\ IdleNested
    /\ IdleFind
    /\ IdleReq
    /\ IdleCli
    /\ list_in \in ListInputs
    /\ list_out = Unset
    /\ IdleSync

NextList == ApplyList

SpecList == InitList /\ [][NextList]_vars

\* ------------------------------------------------------------ sync_chromebooks alone
MaxSyncDevices == 2
MaxFaults == 1
MaxRuns == 2
SafetyBreak == 1000

PROTECTED_STATUSES == {"checked_out", "pending_signature"}
\* device.get('serialNumber', 'Unknown')
UnknownSerial == "Unknown"
\* f"UNKNOWN-{device.get('deviceId', 'NO-ID')}"
UnknownKeys == <<"UNKNOWN-d1", "UNKNOWN-d2", "UNKNOWN-d3", "UNKNOWN-d4", "UNKNOWN-d5">>
\* "CB-" and the first eight digits of md5(f"{serial_number}-{device_id}"),
\* for a device with its serial number and for one without.
SerialHashTags == <<"CB-s1-d1", "CB-s2-d2", "CB-s3-d3", "CB-s4-d4", "CB-s5-d5">>
NoSerialHashTags == <<"CB--d1", "CB--d2", "CB--d3", "CB--d4", "CB--d5">>

IndexOfDevice(device_id) == CHOOSE k \in 1..Len(DeviceIds) : DeviceIds[k] = device_id

\* dict.get(key, default)
DeviceGet(d, key, default) == IF key \in DOMAIN d THEN d[key] ELSE default

\* A device as the fetch hands it over: a field with no value is left out.
GoogleDevice(k, has_serial, has_asset, status) ==
    IF has_serial /\ has_asset
    THEN [deviceId |-> DeviceIds[k], status |-> status,
          serialNumber |-> SerialNumbers[k], annotatedAssetId |-> AssetTags[k]]
    ELSE IF has_serial
    THEN [deviceId |-> DeviceIds[k], status |-> status,
          serialNumber |-> SerialNumbers[k]]
    ELSE IF has_asset
    THEN [deviceId |-> DeviceIds[k], status |-> status,
          annotatedAssetId |-> AssetTags[k]]
    ELSE [deviceId |-> DeviceIds[k], status |-> status]

GoogleDevicesOf(k) ==
    {GoogleDevice(k, s, a, st) : s \in BOOLEAN, a \in BOOLEAN, st \in {"ACTIVE", "DEPROVISIONED"}}

\* The fetched lists: every device of the domain at most once.
GoogleDeviceLists ==
    {<<>>}
    \cup {<<d>> : d \in UNION {GoogleDevicesOf(k) : k \in 1..MaxSyncDevices}}
    \cup UNION {{<<d, e>> : d \in GoogleDevicesOf(kl[1]), e \in GoogleDevicesOf(kl[2])} :
                kl \in {p \in (1..MaxSyncDevices) \X (1..MaxSyncDevices) : p[1] # p[2]}}

map_status(google_status) ==
    CASE google_status = "ACTIVE" -> "available"
      [] google_status = "DEPROVISIONED" -> "deprovisioned"
      [] google_status = "DISABLED" -> "disabled"
      [] google_status = "UNKNOWN" -> "available"
      [] OTHER -> "available"

\* An asset tag: a string, with the "-<counter>" the last resort appends.
Tag(s) == [base |-> s, counter |-> 0]

TagTaken(asset_tag, rows) == \E r \in 1..Len(rows) : rows[r].asset_tag = asset_tag

RECURSIVE hash_tag_loop(_,_,_,_)
hash_tag_loop(asset_tag, original_tag, counter, rows) ==
    IF ~TagTaken(asset_tag, rows)
    THEN asset_tag
    ELSE IF counter + 1 > SafetyBreak
    THEN [base |-> original_tag, counter |-> counter]
    ELSE hash_tag_loop([base |-> original_tag, counter |-> counter],
                       original_tag, counter + 1, rows)

generate_unique_asset_tag(device, rows) ==
    LET serial_number == DeviceGet(device, "serialNumber", "")
        device_id == DeviceGet(device, "deviceId", "")
        \* device_id[-8:] of an id shorter than eight characters
        tail == device_id
        hashed == IF serial_number = ""
                  THEN NoSerialHashTags[IndexOfDevice(device_id)]
                  ELSE SerialHashTags[IndexOfDevice(device_id)]
    IN  IF "annotatedAssetId" \in DOMAIN device
           /\ ~TagTaken(Tag(device.annotatedAssetId), rows)
        THEN Tag(device.annotatedAssetId)
        ELSE IF serial_number # "" /\ ~TagTaken(Tag(serial_number), rows)
        THEN Tag(serial_number)
        ELSE IF device_id # "" /\ ~TagTaken(Tag(tail), rows)
        THEN Tag(tail)
        ELSE hash_tag_loop(Tag(hashed), hashed, 1, rows)

\* The columns the UPDATE leaves alone.
ExcludedFieldsNone(existing_device) == {}

ExcludedFields(existing_device) ==
    IF existing_device.status \in PROTECTED_STATUSES
    THEN {"status", "current_user_id", "checked_out_date", "status_source",
          "status_override_date"}
    ELSE IF existing_device.status_source = "local"
    THEN {"status", "status_source", "status_override_date", "is_insured"}
    ELSE {}

NewStats(total) ==
    [total |-> total, created |-> 0, updated |-> 0, unchanged |-> 0,
     errors |-> 0, protected |-> 0]

\* The rows the table holds before the first run: none, or device 1's row
\* as an earlier sync and the application left it.
StoredRows ==
    {<<>>}
    \cup {<<[serial_number |-> SerialNumbers[1], asset_tag |-> Tag(AssetTags[1]),
            status |-> st[1], status_source |-> st[2], device_id |-> DeviceIds[1]]>> :
          st \in {<<"available", "google">>, <<"checked_out", "google">>,
                  <<"pending_signature", "google">>, <<"maintenance", "local">>,
                  <<"checked_out", "local">>}}

\* devices.list_all_devices(...) and the check of its result.
SyncFetch ==
    \E error \in BOOLEAN :
        /\ sync.phase = "start"
        /\ sync' = [sync EXCEPT
               !.phase = IF error THEN "failed" ELSE "loop",
               !.stats = NewStats(Len(sync.google_devices))]
        /\ UNCHANGED <<chromebooks, orch_vars, part_vars, nested_vars, find_vars,
                       req_vars, cli_vars, list_vars>>

\* One pass of the loop over google_devices. The database fails nowhere, at
\* the SELECT, at the UPDATE or INSERT, or at the commit; or the statement
\* returns no row.
SyncDevice ==
    \E fault \in {"none", "select", "write", "norow", "commit"} :
        /\ sync.phase = "loop"
        /\ sync.i <= Len(sync.google_devices)
        /\ fault # "none" => sync.faults < MaxFaults
        /\ LET device == sync.google_devices[sync.i]
               device_serial == DeviceGet(device, "serialNumber", UnknownSerial)
               found == {r \in 1..Len(chromebooks) :
                            chromebooks[r].serial_number = device_serial}
               existing == found # {}
               id == CHOOSE r \in found : TRUE
               existing_device == chromebooks[id]
               serial_number ==
                   IF device_serial # UnknownSerial
                   THEN device_serial
                   ELSE UnknownKeys[IndexOfDevice(device.deviceId)]
               asset_tag ==
                   IF existing
                   THEN existing_device.asset_tag
                   ELSE generate_unique_asset_tag(device, chromebooks)
               final_status ==
                   IF existing /\ existing_device.status_source = "local"
                   THEN existing_device.status
                   ELSE map_status(DeviceGet(device, "status", None))
               device_data ==
                   [asset_tag |-> asset_tag, serial_number |-> serial_number,
                    status |-> final_status, device_id |-> device.deviceId]
               excluded_fields == ExcludedFields(existing_device)
               Value(key) ==
                   IF key \in excluded_fields
                   THEN existing_device[key]
                   ELSE device_data[key]
               updated_row ==
                   [serial_number |-> Value("serial_number"),
                    asset_tag |-> Value("asset_tag"),
                    status |-> Value("status"),
                    status_source |-> existing_device.status_source,
                    device_id |-> Value("device_id")]
               inserted_row ==
                   [serial_number |-> serial_number, asset_tag |-> asset_tag,
                    status |-> final_status,
                    \* the column's default: the INSERT does not set it
                    status_source |-> "google",
                    device_id |-> device.deviceId]
               \* a unique serial_number column rejects a second row with the key
               rejected ==
                   /\ ~existing
                   /\ sync.unique
                   /\ \E r \in 1..Len(chromebooks) :
                          chromebooks[r].serial_number = serial_number
               protects ==
                   /\ fault # "select"
                   /\ existing
                   /\ existing_device.status \in PROTECTED_STATUSES
               raised == fault \in {"select", "write"} \/ rejected
               result ==
                   IF raised THEN "raised"
                   ELSE IF existing
                   THEN (IF fault = "norow" THEN "unchanged" ELSE "updated")
                   ELSE (IF fault = "norow" THEN "error" ELSE "created")
               committed == ~raised /\ fault # "commit"
               bump(counter, on) == IF on THEN counter + 1 ELSE counter
               stats ==
                   [total |-> sync.stats.total,
                    created |-> bump(sync.stats.created, result = "created"),
                    updated |-> bump(sync.stats.updated, result = "updated"),
                    unchanged |-> bump(sync.stats.unchanged, result = "unchanged"),
                    errors |-> bump(bump(sync.stats.errors, result = "error"),
                                    ~committed),
                    protected |-> bump(sync.stats.protected, protects)]
           IN  /\ chromebooks' =
                      IF committed /\ result = "updated"
                      THEN [chromebooks EXCEPT ![id] = updated_row]
                      ELSE IF committed /\ result = "created"
                      THEN Append(chromebooks, inserted_row)
                      ELSE chromebooks
               /\ sync' = [sync EXCEPT
                      !.i = sync.i + 1,
                      !.stats = stats,
                      !.faults = bump(sync.faults, fault # "none"),
                      !.last = IF committed THEN result ELSE "rolled back"]
        /\ UNCHANGED <<orch_vars, part_vars, nested_vars, find_vars, req_vars,
                       cli_vars, list_vars>>

\* The loop is over: sync_chromebooks returns its stats.
SyncReturn ==
    /\ sync.phase = "loop"
    /\ sync.i > Len(sync.google_devices)
    /\ sync' = [sync EXCEPT !.phase = "returned"]
    /\ UNCHANGED <<chromebooks, orch_vars, part_vars, nested_vars, find_vars,
                   req_vars, cli_vars, list_vars>>

\* The script is run again against the same remote data.
SyncAgain ==
    /\ sync.phase = "returned"
    /\ sync.run < MaxRuns
    /\ sync' = [sync EXCEPT
           !.phase = "start",
           !.run = sync.run + 1,
           !.i = 1,
           !.stats = NewStats(0),
           !.last = "none",
           !.first = IF sync.run = 1 THEN chromebooks ELSE sync.first]
    /\ UNCHANGED <<chromebooks, orch_vars, part_vars, nested_vars, find_vars,
                   req_vars, cli_vars, list_vars>>

InitSync ==
    /\ InitOrch
    /\ remote = FindRemote
    /\ IdlePart
    /\ IdleNested
    /\ IdleFind
    /\ IdleReq
    /\ IdleCli
    /\ IdleList
    /\ chromebooks \in StoredRows
    /\ \E google_devices \in GoogleDeviceLists, unique \in BOOLEAN :
           sync = [google_devices |-> google_devices, unique |-> unique,
                   phase |-> "start", run |-> 1, i |-> 1,
                   stats |-> NewStats(0), faults |-> 0, last |-> "none",
                   first |-> <<>>]

NextSync == SyncFetch \/ SyncDevice \/ SyncReturn \/ SyncAgain

SpecSync == InitSync /\ [][NextSync]_vars

\* ------------------------------------------------------------ properties
Ids(seq) == {seq[j].deviceId : j \in 1..Len(seq)}

Count(seq, id) == Cardinality({j \in 1..Len(seq) : seq[j].deviceId = id})

RECURSIVE Flatten(_)
Flatten(seqs) == IF seqs = <<>> THEN <<>> ELSE Head(seqs) \o Flatten(Tail(seqs))

\* The report a task's outcome is collected into.
Sink(t) ==
    IF tasks[t].kind = "move"
    THEN (IF call.op = "move_devices_to_ou" THEN results ELSE move_results)
    ELSE IF tasks[t].kind = "reboot" /\ ~batch_results[tasks[t].grp].merged
    THEN batch_results[tasks[t].grp]
    ELSE results

TaskIds == 1..Len(tasks)

Orchestrators == {"move_devices_to_ou", "reboot_devices", "reset_device", "deprovision"}

\* C1: once move_devices_to_ou, reboot_devices, reset_device or deprovision
\* has returned, every input identifier is in exactly one result list:
\* the lists hold no device twice and their lengths sum to the input length.
C1_EveryInputReported ==
    (pc = "returned" /\ call.op \in Orchestrators) =>
        /\ Len(results.success) + Len(results.failure)
             + Len(results.already_deprovisioned) = Len(call.devices)
        /\ \A id \in Ids(results.success \o results.failure
                         \o results.already_deprovisioned) :
              Count(results.success \o results.failure
                    \o results.already_deprovisioned, id) = 1

\* C2: a top-level device operation (reboot_devices with a valid delay
\* included) never raises: it always ends by returning its report.
C2_NeverRaises ==
    (call.op \in Orchestrators \cup {"update_os"}
       /\ (call.op = "reboot_devices" =>
             (MIN_DELAY <= call.delay /\ call.delay <= MAX_DELAY)))
    => pc # "raised"

\* C3: for one batch the moveDevicesToOu request is issued at most
\* MAX_RETRIES times, and RETRY_DELAY is slept once after each failed request
\* but the last.
C3_AtMostThreeRequests ==
    \A t \in TaskIds :
        tasks[t].kind = "move" =>
            /\ tasks[t].reqs <= MAX_RETRIES
            /\ tasks[t].outcome = "fail" => tasks[t].sleeps = tasks[t].reqs - 1

\* C4: a task whose every attempt failed leaves exactly one failure record
\* per item, carrying the last attempt's exception, and no success record.
C4_OneFailurePerItem ==
    \A t \in TaskIds :
        (tasks[t].outcome # "pending" /\ tasks[t].attempt = MAX_RETRIES) =>
            \A j \in 1..Len(tasks[t].batch) :
                LET id == tasks[t].batch[j].deviceId
                IN  /\ Count(Sink(t).failure, id) = 1
                    /\ \A k \in 1..Len(Sink(t).failure) :
                          Sink(t).failure[k].deviceId = id =>
                              Sink(t).failure[k].reason = tasks[t].last
                    /\ Count(Sink(t).success, id) = 0

\* C5: a task that failed MAX_RETRIES - 1 times and then succeeded has its
\* items under success and none under failure; a failure is emitted only
\* when all MAX_RETRIES attempts failed (or credentials could not be
\* refreshed, which is not retried).
C5_SuccessOnFinalAttempt ==
    \A t \in TaskIds :
        /\ (tasks[t].outcome = "ok" /\ tasks[t].attempt = MAX_RETRIES - 1) =>
              \A id \in BatchIds(tasks[t].batch) :
                  /\ Count(Sink(t).success, id) = 1
                  /\ Count(Sink(t).failure, id) = 0
        /\ (tasks[t].outcome \in {"fail", "raise"}
              /\ tasks[t].last.type # "RefreshError") =>
              tasks[t].attempt = MAX_RETRIES
        /\ \A id \in BatchIds(tasks[t].batch) :
              Count(Sink(t).failure, id) > 0 => tasks[t].outcome = "fail"

C5_Witness ==
    /\ pc = "returned"
    /\ \E t \in TaskIds :
          /\ tasks[t].outcome = "ok"
          /\ tasks[t].attempt = MAX_RETRIES - 1
          /\ tasks[t].kind = "move"
    /\ results.failure = <<>>

\* C6: in deprovision a device looked up as DEPROVISIONED, or answered
\* 'Illegal device state transition', is reported under
\* already_deprovisioned and under neither success nor failure; that outcome
\* is followed by no sleep and by no request for the device (phase two's move
\* included).
C6_AlreadyDeprovisioned ==
    /\ \A t \in TaskIds :
          tasks[t].kind = "deprovision" =>
              LET tk == tasks[t]
                  id == tk.batch[1].deviceId
              IN  /\ (tk.batch[1].status = "DEPROVISIONED" /\ tk.outcome # "pending")
                        => (tk.outcome = "already" /\ tk.reqs = 0 /\ tk.sleeps = 0)
                  /\ tk.last.type = "Illegal"
                        => /\ tk.outcome = "already"
                           /\ tk.last.req = tk.reqs
                           /\ tk.sleeps = tk.attempt
                           /\ tk.reqs = tk.attempt + 1
                  /\ tk.outcome = "already"
                        => /\ Count(results.already_deprovisioned, id) = 1
                           /\ Count(results.success, id) = 0
                           /\ Count(results.failure, id) = 0
                  /\ Count(results.already_deprovisioned, id) > 0
                        => tk.outcome = "already"
    /\ call.op = "deprovision" =>
          \A j \in 1..Len(results.already_deprovisioned) :
              LET r == results.already_deprovisioned[j]
              IN  /\ r.deviceId \notin Ids(results.success) \cup Ids(results.failure)
                  /\ r.deviceId \notin move_requests
                  /\ \A k \in 1..Len(move_arg) : move_arg[k] # r.annotatedAssetId

C6_Witness ==
    /\ pc = "returned"
    /\ call.op = "deprovision"
    /\ \E t \in TaskIds : \E u \in TaskIds :
          /\ tasks[t].kind = "deprovision" /\ tasks[t].last.type = "Illegal"
          /\ tasks[u].kind = "deprovision"
          /\ tasks[u].batch[1].status = "DEPROVISIONED"
    /\ Len(results.already_deprovisioned) = 2

\* C7: the partitioner forms exactly ceil(N/B) batches, each non-empty and of
\* at most B items, whose concatenation in order is the input; an empty input
\* gives no batch.
C7_Partition ==
    part_out[1] = "set" =>
        LET batches == part_out[2]
            N == Len(part_in.list)
            B == part_in.size
        IN  /\ Len(batches) = (N + B - 1) \div B
            /\ \A k \in 1..Len(batches) :
                  Len(batches[k]) >= 1 /\ Len(batches[k]) <= B
            /\ Flatten(batches) = part_in.list
            /\ N = 0 => batches = <<>>

C7_Witness ==
    /\ part_out[1] = "set"
    /\ Len(part_in.list) = MaxPartLen
    /\ part_in.size = 2
    /\ Len(part_out[2]) = (MaxPartLen + 1) \div 2
    /\ Len(part_out[2][Len(part_out[2])]) = MaxPartLen - 2 * (Len(part_out[2]) - 1)

\* C8: in move_devices_to_ou a device whose looked-up orgUnitPath equals
\* "/" + the normalized target is named in no moveDevicesToOu request, and is
\* under success once the call has returned.
C8_NoRequestWhenInTarget ==
    call.op = "move_devices_to_ou" =>
        \A t \in TaskIds : \A j \in 1..Len(tasks[t].batch) :
            LET d == tasks[t].batch[j]
            IN  (HasKey(d, "orgUnitPath")
                   /\ d.orgUnitPath = <<Slash>> \o tasks[t].target_ou) =>
                    /\ d.deviceId \notin move_requests
                    /\ pc = "returned" => Count(results.success, d.deviceId) = 1

\* C9: reboot_devices with a delay outside [0, 300] raises ValueError before
\* anything else happens: no lookup, no task, no request, nothing cached.
C9_DelayRejected ==
    (call.op = "reboot_devices" /\ (call.delay < 0 \/ call.delay > 300)) =>
        /\ pc = "raised"
        /\ call.raised = "ValueError"
        /\ lookups = 0
        /\ tasks = <<>>
        /\ batch_results = <<>>
        /\ device_cache = <<>>
        /\ move_requests = {}
        /\ results = EmptyResults

C9_Witness ==
    /\ call.op = "reboot_devices"
    /\ call.delay = 301
    /\ pc = "raised"

\* C10: the list deprovision hands to its phase-two move is exactly the
\* asset tags of the records under phase-one success, in order: no device
\* under failure or already_deprovisioned is in it, all N of them are in it
\* when all N inputs succeeded, and the move's batches hold exactly those
\* devices.
C10_PhaseTwoGetsSuccesses ==
    (call.op = "deprovision" /\ move_arg # <<>>) =>
        /\ move_arg = [j \in 1..Len(results.success) |->
                          results.success[j].annotatedAssetId]
        /\ \A j \in 1..Len(results.failure) : \A k \in 1..Len(move_arg) :
              move_arg[k] # results.failure[j].annotatedAssetId
        /\ \A j \in 1..Len(results.already_deprovisioned) :
           \A k \in 1..Len(move_arg) :
              move_arg[k] # results.already_deprovisioned[j].annotatedAssetId
        /\ Len(results.success) = Len(call.devices) =>
              Len(move_arg) = Len(call.devices)
        /\ [j \in 1..Len(Flatten([t \in TaskIds |-> tasks[t].batch])) |->
               Flatten([t \in TaskIds |-> tasks[t].batch])[j].deviceId]
             = [j \in 1..Len(results.success) |-> results.success[j].deviceId]

C10_Witness ==
    /\ call.op = "deprovision"
    /\ pc = "phase2"
    /\ Len(call.devices) = MaxDevices
    /\ Len(move_arg) = MaxDevices
    /\ Len(tasks) = (MaxDevices + MAX_BATCH_SIZE - 1) \div MAX_BATCH_SIZE
    /\ Len(tasks) >= 2

\* C11 (as stated): deprovision issues its phase-two move only if a target OU
\* was given and every phase-one deprovision succeeded: with a device under
\* failure, or without a target OU, no move is made.
C11_MoveOnlyIfAllSucceeded ==
    (call.op = "deprovision"
       /\ (pc = "phase2" \/ move_arg # <<>> \/ move_requests # {})) =>
        /\ call.target_ou # NoTarget
        /\ results.failure = <<>>

\* C11 (amended): deprovision issues its phase-two move if and only if a
\* target OU was given and at least one phase-one deprovision succeeded; a
\* call without a target OU, or with no device under success, makes no move.
C11_MoveOnlyIfTargetAndSuccess ==
    call.op = "deprovision" =>
        /\ (pc = "phase2" \/ move_arg # <<>> \/ move_requests # {}) =>
              (call.target_ou # NoTarget /\ results.success # <<>>)
        /\ (pc = "returned" /\ call.target_ou # NoTarget /\ results.success # <<>>) =>
              move_arg # <<>>
        /\ (pc = "returned" /\ (call.target_ou = NoTarget \/ results.success = <<>>)) =>
              (move_arg = <<>> /\ move_requests = {}
                 /\ results.move_success = <<>> /\ results.move_failure = <<>>)

C11_Witness ==
    /\ call.op = "deprovision"
    /\ pc = "returned"
    /\ call.target_ou # NoTarget
    /\ results.failure # <<>>
    /\ results.success # <<>>
    /\ move_requests # {}
    /\ results.move_success # <<>>

\* C14: once move_devices_to_ou has returned, the next find_device lookup of a
\* device it moved (same instance, same identifier) gives the device's new
\* orgUnitPath, not the one cached before the move.
C14_LookupReflectsMove ==
    (pc = "returned" /\ call.op = "move_devices_to_ou"
       /\ call.identifier_type # "deviceId") =>
        \A j \in 1..Len(call.devices) :
            LET r == find_device(call.devices[j], call.identifier_type, InfoFields,
                                 "answer", device_cache, remote)
            IN  (r.found /\ DictGet(r.dict, "deviceId", None) \in Ids(results.success)) =>
                    DictGet(r.dict, "orgUnitPath", <<"Unknown">>)
                        = <<Slash>> \o call.target_ou

\* C18: when a batch (or device task) has failed on every attempt, every
\* other task the call submitted still completes, and once the call is over
\* each of them has its devices in the report: under success if it went
\* through, under failure if not.
C18_Bulkhead ==
    (call.op \in Orchestrators /\ pc \in {"returned", "raised"}
       /\ Len(tasks) >= 2
       /\ \E t \in TaskIds : tasks[t].attempt = MAX_RETRIES) =>
        /\ pc = "returned"
        /\ \A u \in TaskIds :
              /\ tasks[u].outcome # "pending"
              /\ \A id \in BatchIds(tasks[u].batch) :
                    /\ tasks[u].outcome = "ok" => Count(Sink(u).success, id) = 1
                    /\ tasks[u].outcome = "fail" => Count(Sink(u).failure, id) = 1

\* C19: an orchestrating call is over (returned, or left by an exception)
\* only when every task it submitted has completed, and its second phase
\* starts only then; a task that has an outcome keeps it (no cancellation).
C19_JoinBeforeReturn ==
    /\ (call.op \in Orchestrators /\ pc \in {"returned", "raised"}) => AllDone
    /\ (call.op = "reboot_devices" /\ pc = "returned") =>
          \A b \in 1..Len(batch_results) : batch_results[b].merged
    /\ (pc = "returned" /\ call.op \in Orchestrators) =>
          \A t \in TaskIds : \A id \in BatchIds(tasks[t].batch) :
              Count(Sink(t).success, id) + Count(Sink(t).failure, id)
                + Count(Sink(t).already_deprovisioned, id) = 1

C19_Witness ==
    /\ pc = "returned"
    /\ call.op = "reboot_devices"
    /\ Len(batch_results) >= 2
    /\ Len(tasks) = MaxDevices
    /\ \E t \in TaskIds : tasks[t].outcome = "fail"
    /\ \E t \in TaskIds : tasks[t].outcome = "ok"

\* The record holds the whole path: dict after dict, each with the next key.
RECURSIVE HasPath(_, _)
HasPath(data, path) ==
    /\ data.t = "dict"
    /\ Head(path) \in DOMAIN data.d
    /\ Len(path) = 1 \/ HasPath(data.d[Head(path)], Tail(path))

RECURSIVE ValueAt(_, _)
ValueAt(data, path) ==
    IF Len(path) = 1 THEN data.d[Head(path)]
    ELSE ValueAt(data.d[Head(path)], Tail(path))

\* Following the path dict after dict arrives at a dict without the next key.
RECURSIVE LacksKey(_, _)
LacksKey(data, path) ==
    /\ data.t = "dict"
    /\ \/ Head(path) \notin DOMAIN data.d
       \/ Len(path) > 1 /\ Head(path) \in DOMAIN data.d
             /\ LacksKey(data.d[Head(path)], Tail(path))

\* C20: get_nested_value never raises; on a record in which a key of the
\* dotted path is missing it gives null, and on a record that holds the whole
\* path it gives the value at the end of the path.
C20_NestedValue ==
    nested_out # Unset =>
        LET out == nested_out[2]
        IN  /\ out.raised = "none"
            /\ LacksKey(nested_in.data, nested_in.path) => out.value = Null
            /\ HasPath(nested_in.data, nested_in.path) =>
                  out.value = ValueAt(nested_in.data, nested_in.path)

C20_Witness ==
    /\ nested_out # Unset
    /\ Len(nested_in.path) = MaxPath
    /\ nested_in.data.t = "dict"
    /\ Head(nested_in.path) \in DOMAIN nested_in.data.d
    /\ LacksKey(nested_in.data, nested_in.path)
    /\ nested_out[2] = Returned(Null)

\* C16: _make_request raises nothing and returns an AeriesResponse: 200 with
\* a JSON body gives success and the parsed body; 200 with another body gives
\* success and the raw text; 404 gives failure, status_code 404 and the message
\* 'Resource not found'; any other status gives failure, that status_code and
\* the raw body as error; a transport failure gives failure, the message
\* 'Network error occurred', the exception's text as error and no status_code.
C16_MakeRequest ==
    req_out # Unset =>
        LET out == req_out[2]
            r == out.value
            parsed == ParseJson(req_in.text)
        IN  /\ out.raised = "none"
            /\ req_in.transport # Nothing =>
                  /\ ~r.success
                  /\ r.message = "Network error occurred"
                  /\ r.error = req_in.transport
                  /\ r.status_code = Nothing
            /\ (req_in.transport = Nothing /\ req_in.status_code = 200) =>
                  /\ r.success
                  /\ r.status_code = Some(200)
                  /\ parsed.raised = "none" => r.data = Some(parsed.value)
                  /\ parsed.raised # "none" => r.data = Some(req_in.text)
            /\ (req_in.transport = Nothing /\ req_in.status_code = 404) =>
                  /\ ~r.success
                  /\ r.status_code = Some(404)
                  /\ r.message = "Resource not found"
            /\ (req_in.transport = Nothing /\ req_in.status_code \notin {200, 404}) =>
                  /\ ~r.success
                  /\ r.status_code = Some(req_in.status_code)
                  /\ r.error = Some(req_in.text)

C16_Witness ==
    /\ req_out # Unset
    /\ req_in.transport = Nothing
    /\ req_in.status_code = 200
    /\ req_in.text = <<"<html>">>
    /\ req_out[2].value.success
    /\ req_out[2].value.data = Some(<<"<html>">>)

\* C17: a script run (its command line accepted by the argument parser)
\* prints exactly one JSON object with a boolean 'success' and exits with
\* status 0 exactly when that 'success' is true; a run whose operation failed
\* exits non-zero.
C17_ExitMatchesSuccess ==
    (cli_out # Unset /\ cli_in.args # "missing") =>
        LET run == cli_out[2]
        IN  /\ Len(run.stdout) = 1
            /\ run.stdout[1].success \in BOOLEAN
            /\ (run.exit = 0) <=> run.stdout[1].success
            /\ cli_in.op \in {"fail", "raise"} => run.exit # 0

\* C12: a find_device call for a key already in the cache, asking for the
\* fields of the fetch that stored the entry, issues no list query, raises
\* nothing and returns what that fetch returned.
C12_CachedLookup ==
    (/\ find_last[1] = "set"
     /\ find_last[2].op = "find_device"
     /\ find_last[2].hit
     /\ find_last[2].fields =
            find_fetched[CacheKey(find_last[2].identifier_type,
                                  find_last[2].identifier)].fields)
    => (/\ find_last[2].calls = 0
        /\ find_last[2].raised = "none"
        /\ find_last[2].ret =
               find_fetched[CacheKey(find_last[2].identifier_type,
                                     find_last[2].identifier)].ret)

\* C13: a find_device call that finds its device (in the cache, or by a
\* query the service answers) returns the value of the one requested field,
\* or the projection of the requested fields when zero or several are
\* requested, whatever fields an earlier call for the same key requested.
C13_FieldShape ==
    (/\ find_last[1] = "set"
     /\ find_last[2].op = "find_device"
     /\ find_last[2].raised = "none"
     /\ find_last[2].hit \/ find_last[2].answer = "answer"
     /\ Matches(find_last[2].identifier, find_last[2].identifier_type, remote) # {})
    => LET c == find_last[2]
           i == CHOOSE j \in Matches(c.identifier, c.identifier_type, remote) : TRUE
           projection == process_device(DeviceRecord(i, remote),
                                        IF c.fields = <<>> THEN DefaultFields
                                        ELSE c.fields)
       IN  c.ret = IF Len(c.fields) # 1 THEN DictRet(projection)
                   ELSE IF projection = <<>> THEN NoneRet
                   ELSE ValueRet(projection[1][2])

\* C15: the resolution step of a mutating operation, when the service
\* answers, resolves an identifier that is the asset tag or the serial number
\* of a device to that device, and every resolved record has a deviceId.
C15_ResolvesBySerial ==
    (/\ find_last[1] = "set"
     /\ find_last[2].op = "get_device_info"
     /\ find_last[2].answer = "answer")
    => LET c == find_last[2]
       IN  /\ \A i \in DeviceIndex :
                 c.identifier \in {AssetTags[i], SerialNumbers[i]}
                 => \E k \in 1..Len(c.list) : c.list[k].deviceId = DeviceIds[i]
           /\ \A k \in 1..Len(c.list) : c.list[k].deviceId # None

\* C22: a find_device call whose query fails (the service raises) ends
\* differently from a call whose query the service answers with zero matches:
\* the returned value or the raised exception tells the two apart.
C22_NotFoundDistinctFromError ==
    (/\ find_last[1] = "set"
     /\ find_last[2].op = "find_device"
     /\ ValidIdentifierType(find_last[2].identifier_type)
     /\ ~find_last[2].hit
     /\ find_last[2].answer = "error")
    => LET no_match == find_device(Unknown, find_last[2].identifier_type,
                                   find_last[2].fields, "answer", <<>>, remote)
       IN  <<find_last[2].ret, find_last[2].raised>>
               # <<no_match.ret, no_match.raised>>

\* C23: a find_device call with an identifier_type other than
\* annotatedAssetId and serialNumber raises ValueError, issues no list query
\* and leaves the cache as it was.
C23_InvalidTypeRejected ==
    [][(/\ find_n' = find_n + 1
        /\ find_last'[2].op = "find_device"
        /\ find_last'[2].identifier_type \notin {"annotatedAssetId", "serialNumber"})
       => (/\ find_last'[2].raised = "ValueError"
           /\ find_last'[2].calls = 0
           /\ lookups' = lookups
           /\ device_cache' = device_cache)]_vars

C23_Witness ==
    /\ find_last[1] = "set"
    /\ find_last[2].op = "find_device"
    /\ find_last[2].identifier_type = "deviceId"
    /\ find_last[2].raised = "ValueError"
    /\ device_cache # <<>>

\* The task of reboot batch b that holds the device id, and whether the
\* records of seq follow the order in which batch b lists their devices.
TaskOf(id, b) ==
    CHOOSE t \in TaskIds : tasks[t].grp = b /\ tasks[t].batch[1].deviceId = id

InBatchOrder(seq, b) ==
    \A i \in 1..Len(seq) : \A j \in 1..Len(seq) :
        i < j => TaskOf(seq[i].deviceId, b) < TaskOf(seq[j].deviceId, b)

\* C21: the per-device outcomes of one batch are emitted in an order fixed
\* by the batch's input order and the responses (the order in which the
\* batch lists its devices): the records of a moved batch and the success
\* and failure records of a reboot batch follow the batch's order.
C21_BatchOrderDeterministic ==
    /\ \A t \in TaskIds :
          (tasks[t].kind = "move" /\ tasks[t].outcome = "ok") =>
              LET mine == SelectSeq(Sink(t).success,
                                    LAMBDA r : r.deviceId \in BatchIds(tasks[t].batch))
              IN  [j \in 1..Len(mine) |-> mine[j].deviceId]
                     = [j \in 1..Len(tasks[t].batch) |-> tasks[t].batch[j].deviceId]
    /\ call.op = "reboot_devices" =>
          \A b \in 1..Len(batch_results) :
              /\ InBatchOrder(batch_results[b].success, b)
              /\ InBatchOrder(batch_results[b].failure, b)

\* C27: in deprovision, a device that was not DEPROVISIONED at lookup and
\* that a request of this call has deprovisioned on the service (its answer
\* received or lost) is, once its task is over, under 'success' with status
\* 'Deprovisioned', the list from which the phase-two move takes its devices.
C27_EffectiveDeprovisionIsSuccess ==
    (call.op = "deprovision" /\ pc = "running") =>
        \A t \in TaskIds :
            (/\ tasks[t].kind = "deprovision"
             /\ tasks[t].outcome # "pending"
             /\ tasks[t].batch[1].status # "DEPROVISIONED"
             /\ \E i \in IndexOfDeviceId(tasks[t].batch[1].deviceId) :
                    remote[i].status = "DEPROVISIONED")
            => \E j \in 1..Len(results.success) :
                  /\ results.success[j].deviceId = tasks[t].batch[1].deviceId
                  /\ results.success[j].status = "Deprovisioned"

\* C25: when update_os is over, it has returned its report, and every device
\* under 'success' (its WIPE_USERS command went through) was handed by
\* deviceId to the phase-two move and has its deviceId in exactly one of
\* move_success and move_failure.
C25_WipedDevicesMoved ==
    (call.op = "update_os" /\ pc \in {"returned", "raised"}) =>
        \A j \in 1..Len(results.success) :
            LET id == results.success[j].deviceId
            IN  /\ pc = "returned"
                /\ \E k \in 1..Len(move_arg) : move_arg[k] = id
                /\ Count(results.move_success, id)
                      + Count(results.move_failure, id) = 1

\* C26: once a request of a task (a batch's move, a device's reboot, wipe or
\* deprovision command) has returned successfully, the task sends no further
\* request in the same call. A request has returned successfully when the
\* task has outcome "ok", or when move_batch went on to its log loop and
\* raised KeyError there.
C26_NoRequestAfterSuccess ==
    [][\A t \in TaskIds :
          (/\ pc' = pc
           /\ t <= Len(tasks')
           /\ tasks'[t].kind = tasks[t].kind
           /\ tasks'[t].batch = tasks[t].batch
           /\ tasks[t].outcome = "ok"
                 \/ (tasks[t].outcome = "pending" /\ tasks[t].last.type = "KeyError"))
          => tasks'[t].reqs = tasks[t].reqs]_vars

\* The processed devices of all pages, in page order.
Concatenation ==
    Flatten([p \in 1..Len(list_in.pages) |->
                [j \in 1..Len(list_in.pages[p].chromeosdevices) |->
                    process_device(list_in.pages[p].chromeosdevices[j],
                                   DefaultFields)]])

\* C28 (as stated): when no page request fails the response's 'devices' is
\* the concatenation of all pages' devices in order, total_devices is its
\* length and api_calls the number of pages requested; when a page request
\* fails the response is an error object without a device list.
C28_AllPages ==
    list_out # Unset =>
        LET response == list_out[2]
            failed == list_in.fail_at \in 1..Len(list_in.pages)
        IN  /\ failed => DOMAIN response = {"error"}
            /\ ~failed =>
                  /\ response.devices = Concatenation
                  /\ "total_devices" \in DOMAIN response
                  /\ response.total_devices = Len(response.devices)
                  /\ "api_calls" \in DOMAIN response
                  /\ response.api_calls = Len(list_in.pages)

\* C28 (amended): as stated when the pages hold at least one device; when
\* they hold none the response is a message with an empty 'devices' and has
\* neither total_devices nor api_calls.
C28_AllPagesNonEmpty ==
    list_out # Unset =>
        LET response == list_out[2]
            failed == list_in.fail_at \in 1..Len(list_in.pages)
        IN  /\ failed => DOMAIN response = {"error"}
            /\ (~failed /\ Concatenation # <<>>) =>
                  /\ response.devices = Concatenation
                  /\ response.total_devices = Len(response.devices)
                  /\ response.api_calls = Len(list_in.pages)
            /\ (~failed /\ Concatenation = <<>>) =>
                  /\ response.devices = <<>>
                  /\ DOMAIN response = {"message", "devices"}

C28_Witness ==
    /\ list_out # Unset
    /\ list_in.fail_at = 0
    /\ Len(list_in.pages) = MaxPages
    /\ \A p \in 1..MaxPages : Len(list_in.pages[p].chromeosdevices) = MaxPageLen
    /\ list_in.pages[1].chromeosdevices # list_in.pages[MaxPages].chromeosdevices
    /\ list_out[2].api_calls = MaxPages
    /\ list_out[2].total_devices = MaxPages * MaxPageLen


\* C29: when sync_chromebooks returns its stats, created + updated + unchanged
\* + errors equals total: every fetched device is counted in exactly one
\* outcome counter, whatever database error its transaction met, the commit's
\* included.
C29_EveryDeviceCountedOnce ==
    sync.phase = "returned" =>
        sync.stats.created + sync.stats.updated + sync.stats.unchanged
            + sync.stats.errors = sync.stats.total

\* The stored status is protected from the sync.
Protected(row) ==
    row.status \in PROTECTED_STATUSES \/ row.status_source = "local"

\* C30: no step of sync_chromebooks changes the stored status of a row whose
\* status is checked_out or pending_signature, nor of a row whose
\* status_source is 'local', whatever status the remote service reports; a
\* row's status changes only when it has neither protection, and then to the
\* mapped status of the device being processed.
C30_ProtectedStatusKept ==
    [][\A r \in 1..Len(chromebooks) :
          /\ Len(chromebooks') >= r
          /\ Protected(chromebooks[r]) =>
                 chromebooks'[r].status = chromebooks[r].status
          /\ chromebooks'[r].status # chromebooks[r].status =>
                 /\ ~Protected(chromebooks[r])
                 /\ sync.phase = "loop"
                 /\ sync.i <= Len(sync.google_devices)
                 /\ chromebooks'[r].status =
                        map_status(sync.google_devices[sync.i].status)]_vars

\* The UPDATE of a protected row went through while the remote service
\* reports a status that maps to another one.
C30_Witness ==
    /\ sync.run = 1
    /\ sync.i > 1
    /\ sync.last = "updated"
    /\ \E r \in 1..Len(chromebooks) :
           /\ chromebooks[r].device_id = sync.google_devices[sync.i - 1].deviceId
           /\ Protected(chromebooks[r])
           /\ map_status(sync.google_devices[sync.i - 1].status)
                  # chromebooks[r].status

\* C24: a second run of sync_chromebooks against the same remote data, with
\* no database failure in either run, leaves the rows the first run left and
\* inserts no row: every device is found again by its key.
C24_SecondRunInsertsNothing ==
    (sync.phase = "returned" /\ sync.run = 2 /\ sync.faults = 0) =>
        /\ chromebooks = sync.first
        /\ sync.stats.created = 0

====
